---------------------------- MODULE Spec2Model ----------------------------
(***************************************************************************)
(* NovaTune DSP core: PitchShifter (WSOLA cursor bookkeeping), PitchMapper *)
(* (scale quantisation, diatonic intervals), PitchDetector (YIN) and the   *)
(* per-block ratio computation of LeadCorrection / HarmonyVoice, the      *)
(* statement order of TunerEngine::process beside a control thread, two    *)
(* runs of the harmony voices side by side, and the FormantProcessor.      *)
(*                                                                         *)
(* Numbers.  The source computes in float; the model computes in fixed     *)
(* point.  A pitch ratio r is the integer r * RatioScale, a smoothing      *)
(* coefficient c is c * CoeffScale, the output phase p is p * PhaseScale.  *)
(* Audio sample VALUES of the shifter's ring buffers are not modelled:     *)
(* they are only read by findBestGrainPosition / written by                *)
(* addGrainToOutput and never feed back into a cursor, a counter or a      *)
(* ratio.                                                                  *)
(***************************************************************************)
EXTENDS Integers, Sequences, FiniteSets, TLC

VARIABLES ps, calls, pm, mq, pd, apvts, eng, lc, hv, run, random, twin, fp

vars == <<ps, calls, pm, mq, pd, apvts, eng, lc, hv, run, random, twin, fp>>
otherVars == <<random, twin, fp>>
engineVars == <<apvts, eng, lc, hv, run, otherVars>>
shifterVars == <<ps, calls>>
mapperVars == <<pm, mq>>

---------------------------------------------------------------------------
(* Fixed-point scales and generic helpers                                  *)

RatioScale == 10000
CoeffScale == 10000
PhaseScale == 100

Min(a, b) == IF a < b THEN a ELSE b
Max(a, b) == IF a > b THEN a ELSE b
Abs(a) == IF a < 0 THEN -a ELSE a

\* C++ integer division and remainder truncate toward zero
TruncDiv(a, b) == IF a >= 0 THEN a \div b ELSE -((-a) \div b)
CMod(a, b) == IF a >= 0 THEN a % b ELSE -((-a) % b)

\* std::clamp
Clamp(x, lo, hi) == IF x < lo THEN lo ELSE IF x > hi THEN hi ELSE x

RECURSIVE nextPowerOfTwo(_)
nextPowerOfTwo(n) == IF n <= 1 THEN 1 ELSE 2 * nextPowerOfTwo((n + 1) \div 2)

---------------------------------------------------------------------------
(* DSPConfig                                                               *)

minPitchShiftRatio == 5000
maxPitchShiftRatio == 20000
wsolaWindowMs == 25
pitchSmoothingTenthMs == 50
ringBufferSize == 8192

---------------------------------------------------------------------------
(* NovaTuneUtils                                                           *)

\* 2^(k/12) * RatioScale for k = 0..11
Pow2Twelfth == <<10000, 10595, 11225, 11892, 12599, 13348,
                 14142, 14983, 15874, 16818, 17818, 18877>>

RECURSIVE ShiftOctaves(_, _)
ShiftOctaves(r, o) ==
  IF o = 0 THEN r
  ELSE IF o > 0 THEN ShiftOctaves(Min(2 * r, 1000000), o - 1)
  ELSE ShiftOctaves(r \div 2, o + 1)

\* std::pow(2.0f, semitones / 12.0f) for an integer number of semitones
semitonesToRatio(semitones) ==
  LET k == semitones % 12
      o == (semitones - k) \div 12
  IN ShiftOctaves(Pow2Twelfth[k + 1], o)

\* 1 - exp(-1/tau), tau = (timeMs/1000) * sampleRate samples.
\* x = 1/tau in units of 1/CoeffScale; for x < 1 the exponential is taken by
\* its series x - x^2/2 + x^3/6, for x >= 1 the table of 1 - exp(-x).
OneMinusExp(x) ==
  IF x < CoeffScale
    THEN LET x2 == (x * x) \div CoeffScale
             x3 == (x2 * x) \div CoeffScale
         IN Max(1, x - x2 \div 2 + x3 \div 6)
    ELSE IF x < 2 * CoeffScale THEN 6321
    ELSE IF x < 3 * CoeffScale THEN 8647
    ELSE IF x < 5 * CoeffScale THEN 9502
    ELSE IF x < 10 * CoeffScale THEN 9933
    ELSE CoeffScale

calculateSmoothingCoeff(timeTenthMs, sampleRate) ==
  IF timeTenthMs <= 0 THEN CoeffScale
  ELSE LET tauMilli == Max(1, (timeTenthMs * sampleRate) \div 10)
       IN OneMinusExp(Min((1000 * CoeffScale) \div tauMilli, 100 * CoeffScale))

\* y += coeff * (target - y), the one-pole step written inline in the source
SmoothStep(current, target, coeff) ==
  current + TruncDiv(coeff * (target - current), CoeffScale)

\* 2^(cents/1200) * RatioScale: the semitone from the table, the fraction of
\* a semitone by linear interpolation
Pow2Cents(cents) ==
  LET k == cents % 1200
      o == (cents - k) \div 1200
      st == k \div 100
      lo == Pow2Twelfth[st + 1]
      hi == IF st = 11 THEN 2 * RatioScale ELSE Pow2Twelfth[st + 2]
  IN ShiftOctaves(lo + ((hi - lo) * (k % 100)) \div 100, o)

\* Bring num/den into [1, 2) by octaves: <<num, den, octaves>>
RECURSIVE OctaveNormalise(_, _, _)
OctaveNormalise(num, den, oct) ==
  IF num >= 2 * den THEN OctaveNormalise(num, 2 * den, oct + 1)
  ELSE IF num < den THEN OctaveNormalise(2 * num, den, oct - 1)
  ELSE <<num, den, oct>>

\* 1200 * log2(num/den) for num, den > 0, the inverse of Pow2Cents
Log2Cents(num, den) ==
  LET n == OctaveNormalise(num, den, 0)
      r == (n[1] * RatioScale) \div n[2]
      st == CHOOSE k \in 0..11 :
              /\ Pow2Twelfth[k + 1] <= r
              /\ k < 11 => r < Pow2Twelfth[k + 2]
      lo == Pow2Twelfth[st + 1]
      hi == IF st = 11 THEN 2 * RatioScale ELSE Pow2Twelfth[st + 2]
  IN 1200 * n[3] + 100 * st + (100 * (r - lo)) \div (hi - lo)

midiNoteA4 == 69
concertPitchHz == 440

\* Frequencies are in units of 1/FreqScale Hz, MIDI notes in cents
\* (1/MidiScale semitone)
FreqScale == 10
MidiScale == 100

frequencyToMidiNote(frequencyHz) ==
  IF frequencyHz <= 0 THEN 0
  ELSE midiNoteA4 * MidiScale + Log2Cents(frequencyHz, concertPitchHz * FreqScale)

midiNoteToFrequency(midiNote) ==
  (concertPitchHz * FreqScale * Pow2Cents(midiNote - midiNoteA4 * MidiScale))
    \div RatioScale

getPitchRatio(targetMidi, sourceMidi) == Pow2Cents(targetMidi - sourceMidi)

\* NovaTuneUtils::diatonicToSemitones: the interval of a scale degree counted
\* from the root of the scale
Utils_diatonicToSemitones(scaleDegree, scaleIntervals) ==
  LET numNotesInScale == Len(scaleIntervals)
  IN IF scaleDegree = 0 THEN 0
     ELSE IF scaleDegree < 0
       THEN LET octavesDown == (-scaleDegree) \div numNotesInScale
                remainingDegrees == (-scaleDegree) % numNotesInScale
            IN IF remainingDegrees = 0 THEN -12 * octavesDown
               ELSE -(12 * (octavesDown + 1))
                      + scaleIntervals[numNotesInScale - remainingDegrees + 1]
       ELSE LET octavesUp == scaleDegree \div numNotesInScale
                remainingDegrees == scaleDegree % numNotesInScale
            IN 12 * octavesUp + scaleIntervals[remainingDegrees + 1]

---------------------------------------------------------------------------
(* PitchShifter                                                            *)

\* Field defaults of the class and the constructor's buffer sizes
PitchShifterNew ==
  [ sampleRate |-> 44100, maxBlockSize |-> 512,
    windowSize |-> 1024, analysisHopSize |-> 256,
    targetPitchRatio |-> RatioScale, currentPitchRatio |-> RatioScale,
    pitchRatioSmoothing |-> 100,
    latencySamples |-> 0,
    inputBufferSize |-> ringBufferSize, outputBufferSize |-> ringBufferSize,
    inputWritePos |-> 0, inputSamplesAvailable |-> 0,
    outputReadPos |-> 0, outputWritePos |-> 0,
    outputPhase |-> 0, lastInputGrainStart |-> 0,
    prepared |-> FALSE,      \* windowFunction/grainBuffer sized by prepare()
    ratioArg |-> RatioScale, \* last argument given to setPitchRatio()
    grains |-> 0,            \* grains extracted by the last process() call
    grainOffset |-> -1 ]     \* (write - read) cursor distance at the last grain

PitchShifter_reset(q) ==
  [q EXCEPT !.inputWritePos = 0,
            !.inputSamplesAvailable = 0,
            !.outputReadPos = 0,
            !.outputWritePos = q.windowSize,
            !.outputPhase = 0,
            !.lastInputGrainStart = 0,
            !.currentPitchRatio = q.targetPitchRatio,
            !.grains = 0,
            !.grainOffset = -1]

\* prepare that sizes the rings exactly, without juce::nextPowerOfTwo
prepare_exactRingSize(q, sr, maxBlock) ==
  LET w == Max(256, Min((wsolaWindowMs * sr) \div 1000, 2048))
      sz == w * 4 + maxBlock
  IN PitchShifter_reset(
       [q EXCEPT !.sampleRate = sr,
                 !.maxBlockSize = maxBlock,
                 !.windowSize = w,
                 !.analysisHopSize = w \div 4,
                 !.latencySamples = w,
                 !.inputBufferSize = sz,
                 !.outputBufferSize = sz,
                 !.pitchRatioSmoothing =
                     calculateSmoothingCoeff(pitchSmoothingTenthMs, sr),
                 !.prepared = TRUE])

PitchShifter_prepare(q, sr, maxBlock) ==
  LET w == Max(256, Min((wsolaWindowMs * sr) \div 1000, 2048))
      sz == nextPowerOfTwo(w * 4 + maxBlock)
  IN PitchShifter_reset(
       [q EXCEPT !.sampleRate = sr,
                 !.maxBlockSize = maxBlock,
                 !.windowSize = w,
                 !.analysisHopSize = w \div 4,
                 !.latencySamples = w,
                 !.inputBufferSize = sz,
                 !.outputBufferSize = sz,
                 !.pitchRatioSmoothing =
                     calculateSmoothingCoeff(pitchSmoothingTenthMs, sr),
                 !.prepared = TRUE])

\* setPitchRatio with the std::clamp left out
setPitchRatio_unclamped(q, ratio) ==
  [q EXCEPT !.targetPitchRatio = ratio, !.ratioArg = ratio]

PitchShifter_setPitchRatio(q, ratio) ==
  [q EXCEPT !.targetPitchRatio =
              Clamp(ratio, minPitchShiftRatio, maxPitchShiftRatio),
            !.ratioArg = ratio]

PitchShifter_setPitchSemitones(q, semitones) ==
  PitchShifter_setPitchRatio(q, semitonesToRatio(semitones))

\* analysisHop / currentPitchRatio, in units of 1/PhaseScale samples
getSynthesisHopSize(q) ==
  IF q.currentPitchRatio <= 0
    THEN q.analysisHopSize * PhaseScale
    ELSE (q.analysisHopSize * PhaseScale * RatioScale) \div q.currentPitchRatio

\* Saturation point of the int counter inputSamplesAvailable (see processSample)
AvailCap == 4096

processGrains(q) ==
  LET grainStartPos == q.lastInputGrainStart + q.analysisHopSize
      raw == q.inputWritePos - grainStartPos
      availableFromStart == IF raw < 0 THEN raw + q.inputBufferSize ELSE raw
  IN IF availableFromStart < q.windowSize
       THEN q
       ELSE [q EXCEPT
               !.lastInputGrainStart = grainStartPos,
               !.inputSamplesAvailable = @ - q.analysisHopSize,
               !.outputWritePos =
                   (@ + getSynthesisHopSize(q) \div PhaseScale)
                     % q.outputBufferSize,
               !.grains = @ + 1,
               !.grainOffset =
                   (q.outputWritePos - q.outputReadPos + q.outputBufferSize)
                     % q.outputBufferSize]

\* while (inputSamplesAvailable >= windowSize && outputPhase >= synthHop)
RECURSIVE grainLoop(_, _)
grainLoop(q, synthHop) ==
  IF q.inputSamplesAvailable >= q.windowSize /\ q.outputPhase >= synthHop
    THEN grainLoop([processGrains(q) EXCEPT !.outputPhase = @ - synthHop],
                   synthHop)
    ELSE q

\* One iteration of the sample loop of process().  The counter
\* inputSamplesAvailable is an int that only ever grows once grains stop; it
\* is kept at AvailCap from there on (it is only compared with windowSize).
processSample(q) ==
  LET q1 == [q EXCEPT
               !.currentPitchRatio =
                   SmoothStep(@, q.targetPitchRatio, q.pitchRatioSmoothing),
               !.inputWritePos = (@ + 1) % q.inputBufferSize,
               !.inputSamplesAvailable = Min(@ + 1, AvailCap)]
      q2 == grainLoop(q1, getSynthesisHopSize(q1))
  IN [q2 EXCEPT !.outputPhase = @ + PhaseScale,
                !.outputReadPos = (@ + 1) % q.outputBufferSize]

\* F applied to the value of v (v is evaluated once, before F)
Strict(F(_), v) == CHOOSE r \in {F(x) : x \in {v}} : TRUE

\* for (i = 0; i < numSamples; ++i): n iterations of processSample, run as
\* the first half of the iterations followed by the second half
RECURSIVE processLoop(_, _)
processLoop(q, n) ==
  IF n = 0 THEN q
  ELSE IF n = 1 THEN Strict(processSample, q)
  ELSE LET firstHalf(x) == processLoop(x, n \div 2)
           secondHalf(x) == processLoop(x, n - n \div 2)
       IN Strict(secondHalf, Strict(firstHalf, q))

PitchShifter_process(q, numSamples) ==
  processLoop([q EXCEPT !.grains = 0], numSamples)

---------------------------------------------------------------------------
(* NovaTuneEnums                                                           *)

Keys == 0..11
Scales == {"Major", "NaturalMinor", "HarmonicMinor", "MelodicMinor", "Chromatic"}

getScaleIntervals(scale) ==
  CASE scale = "Major" -> <<0, 2, 4, 5, 7, 9, 11>>
    [] scale = "NaturalMinor" -> <<0, 2, 3, 5, 7, 8, 10>>
    [] scale = "HarmonicMinor" -> <<0, 2, 3, 5, 7, 8, 11>>
    [] scale = "MelodicMinor" -> <<0, 2, 3, 5, 7, 9, 11>>
    [] OTHER -> <<0, 1, 2, 3, 4, 5, 6, 7, 8, 9, 10, 11>>

diatonicIndexToScaleDegree(index) == index - 7

---------------------------------------------------------------------------
(* PitchMapper.  A (fractional) MIDI note n is the integer n * MidiScale.  *)

\* std::round: to the nearest integer, halves away from zero
Round(x) ==
  IF x >= 0 THEN (2 * x + MidiScale) \div (2 * MidiScale)
  ELSE -((2 * (-x) + MidiScale) \div (2 * MidiScale))

HarmonySettingsNew ==
  [enabled |-> FALSE, mode |-> "Diatonic",
   diatonicIntervalIndex |-> 7, semitoneOffset |-> 0]

PitchMappingResultNew ==
  [detectedMidiNote |-> 0, detectedFrequencyHz |-> 0, isVoiced |-> FALSE,
   leadTargetMidiNote |-> 0, leadTargetFrequencyHz |-> 0, centsOffTarget |-> 0,
   harmonyTargetMidiNotes |-> <<0, 0, 0>>]

PitchMapperNew ==
  [currentKey |-> 0, currentScale |-> "Major",
   scaleIntervals |-> getScaleIntervals("Major"), keyRootNote |-> 0,
   harmonySettings |-> <<HarmonySettingsNew, HarmonySettingsNew,
                         HarmonySettingsNew>>,
   lastResult |-> PitchMappingResultNew]

\* The key, scale and harmony part of the parameter snapshot p
PitchMapper_updateFromParameters(m, p) ==
  [m EXCEPT !.currentKey = p.key,
            !.currentScale = p.scale,
            !.keyRootNote = p.key,
            !.scaleIntervals = getScaleIntervals(p.scale),
            !.harmonySettings =
               [i \in 1..3 |->
                  [enabled |-> p.voices[i].enabled,
                   mode |-> p.voices[i].mode,
                   diatonicIntervalIndex |-> p.voices[i].intervalDiatonic,
                   semitoneOffset |-> p.voices[i].intervalSemi]]]

\* int pc = n % 12; if (pc < 0) pc += 12;
PitchClass(n) == LET pc == CMod(n, 12) IN IF pc < 0 THEN pc + 12 ELSE pc

RelativePitchClass(m, n) == CMod(PitchClass(n) - m.keyRootNote + 12, 12)

PitchMapper_isNoteInScale(m, midiNote) ==
  \E i \in DOMAIN m.scaleIntervals :
     m.scaleIntervals[i] = RelativePitchClass(m, midiNote)

\* for (int interval : scaleIntervals): the interval of least circular distance,
\* the first one met on a tie (dist < minDistance)
RECURSIVE nearestScan(_, _, _, _, _)
nearestScan(iv, rel, i, minDistance, nearestInterval) ==
  IF i > Len(iv) THEN nearestInterval
  ELSE LET d0 == Abs(rel - iv[i])
           dist == Min(d0, 12 - d0)
       IN IF dist < minDistance
            THEN nearestScan(iv, rel, i + 1, dist, iv[i])
            ELSE nearestScan(iv, rel, i + 1, minDistance, nearestInterval)

\* quantizeToScale that forgets the key root when it computes the relative
\* pitch class
quantizeToScale_rootless(m, midiNote) ==
  IF m.currentScale = "Chromatic" THEN Round(midiNote) * MidiScale
  ELSE LET roundedNote == Round(midiNote)
           relativePitchClass == PitchClass(roundedNote)
       IN IF \E i \in DOMAIN m.scaleIntervals :
                m.scaleIntervals[i] = relativePitchClass
            THEN roundedNote * MidiScale
            ELSE LET nearestInterval ==
                       nearestScan(m.scaleIntervals, relativePitchClass, 1, 12, 0)
                     a0 == nearestInterval - relativePitchClass
                     a1 == IF a0 > 6 THEN a0 - 12 ELSE a0
                     adjustment == IF a1 < -6 THEN a1 + 12 ELSE a1
                 IN (roundedNote + adjustment) * MidiScale

PitchMapper_quantizeToScale(m, midiNote) ==
  IF m.currentScale = "Chromatic" THEN Round(midiNote) * MidiScale
  ELSE LET roundedNote == Round(midiNote)
           relativePitchClass == RelativePitchClass(m, roundedNote)
       IN IF \E i \in DOMAIN m.scaleIntervals :
                m.scaleIntervals[i] = relativePitchClass
            THEN roundedNote * MidiScale
            ELSE LET nearestInterval ==
                       nearestScan(m.scaleIntervals, relativePitchClass, 1, 12, 0)
                     a0 == nearestInterval - relativePitchClass
                     a1 == IF a0 > 6 THEN a0 - 12 ELSE a0
                     adjustment == IF a1 < -6 THEN a1 + 12 ELSE a1
                 IN (roundedNote + adjustment) * MidiScale

\* The scale degree (index into scaleIntervals, from 0) of the start note: the
\* exact match if there is one, else the last interval below it
RECURSIVE startScan(_, _, _, _)
startScan(iv, startRelative, i, startScaleDegree) ==
  IF i >= Len(iv) THEN startScaleDegree
  ELSE IF iv[i + 1] = startRelative THEN i
  ELSE IF iv[i + 1] < startRelative THEN startScan(iv, startRelative, i + 1, i)
  ELSE startScan(iv, startRelative, i + 1, startScaleDegree)

\* while (target >= n) { target -= n; octaveShift += 12; }
\* while (target < 0)  { target += n; octaveShift -= 12; }
RECURSIVE octaveWrap(_, _, _)
octaveWrap(targetScaleDegree, numScaleNotes, octaveShift) ==
  IF targetScaleDegree >= numScaleNotes
    THEN octaveWrap(targetScaleDegree - numScaleNotes, numScaleNotes,
                    octaveShift + 12)
  ELSE IF targetScaleDegree < 0
    THEN octaveWrap(targetScaleDegree + numScaleNotes, numScaleNotes,
                    octaveShift - 12)
  ELSE <<targetScaleDegree, octaveShift>>

\* diatonicToSemitones that drops the octave shift of the wrap-around
diatonicToSemitones_noOctave(m, scaleDegrees, fromMidiNote) ==
  IF scaleDegrees = 0 THEN 0
  ELSE LET numScaleNotes == Len(m.scaleIntervals)
           startRelative == RelativePitchClass(m, Round(fromMidiNote))
           startScaleDegree == startScan(m.scaleIntervals, startRelative, 0, 0)
           w == octaveWrap(startScaleDegree + scaleDegrees, numScaleNotes, 0)
           targetInterval == m.scaleIntervals[w[1] + 1]
           startInterval == m.scaleIntervals[startScaleDegree + 1]
       IN targetInterval - startInterval

PitchMapper_diatonicToSemitones(m, scaleDegrees, fromMidiNote) ==
  IF scaleDegrees = 0 THEN 0
  ELSE LET numScaleNotes == Len(m.scaleIntervals)
           startRelative == RelativePitchClass(m, Round(fromMidiNote))
           startScaleDegree == startScan(m.scaleIntervals, startRelative, 0, 0)
           w == octaveWrap(startScaleDegree + scaleDegrees, numScaleNotes, 0)
           targetInterval == m.scaleIntervals[w[1] + 1]
           startInterval == m.scaleIntervals[startScaleDegree + 1]
       IN (targetInterval - startInterval) + w[2]

\* calculateHarmonyTarget that computes the interval of a disabled voice too
calculateHarmonyTarget_ignoresEnabled(m, voiceIndex, baseMidiNote) ==
  IF voiceIndex < 1 \/ voiceIndex > 3 THEN baseMidiNote
  ELSE LET settings == m.harmonySettings[voiceIndex]
       IN IF settings.mode = "Diatonic"
            THEN baseMidiNote
                   + MidiScale * PitchMapper_diatonicToSemitones(
                                   m,
                                   diatonicIndexToScaleDegree(
                                     settings.diatonicIntervalIndex),
                                   baseMidiNote)
          ELSE IF settings.mode = "Semitone"
            THEN baseMidiNote + MidiScale * settings.semitoneOffset
          ELSE baseMidiNote

PitchMapper_calculateHarmonyTarget(m, voiceIndex, baseMidiNote) ==
  IF voiceIndex < 1 \/ voiceIndex > 3 THEN baseMidiNote
  ELSE LET settings == m.harmonySettings[voiceIndex]
       IN IF ~settings.enabled THEN 0
          ELSE IF settings.mode = "Diatonic"
            THEN baseMidiNote
                   + MidiScale * PitchMapper_diatonicToSemitones(
                                   m,
                                   diatonicIndexToScaleDegree(
                                     settings.diatonicIntervalIndex),
                                   baseMidiNote)
          ELSE IF settings.mode = "Semitone"
            THEN baseMidiNote + MidiScale * settings.semitoneOffset
          ELSE baseMidiNote

\* map that quantizes whatever note the detector holds, voiced or not
map_ignoresVoicing(m, detector) ==
  LET lead == PitchMapper_quantizeToScale(m, detector.detectedMidiNote)
  IN [m EXCEPT !.lastResult =
        [detectedMidiNote |-> detector.detectedMidiNote,
         detectedFrequencyHz |-> detector.detectedFrequencyHz,
         isVoiced |-> detector.voiced,
         leadTargetMidiNote |-> lead,
         leadTargetFrequencyHz |-> midiNoteToFrequency(lead),
         centsOffTarget |-> detector.detectedMidiNote - lead,
         harmonyTargetMidiNotes |->
           [i \in 1..3 |->
              IF m.harmonySettings[i].enabled
                THEN PitchMapper_calculateHarmonyTarget(m, i, lead)
                ELSE 0]]]

\* The mapper after map(detector); the result it returns is lastResult
PitchMapper_map(m, detector) ==
  IF ~detector.voiced
    THEN [m EXCEPT !.lastResult =
            [detectedMidiNote |-> detector.detectedMidiNote,
             detectedFrequencyHz |-> detector.detectedFrequencyHz,
             isVoiced |-> FALSE,
             leadTargetMidiNote |-> 0,
             leadTargetFrequencyHz |-> 0,
             centsOffTarget |-> 0,
             harmonyTargetMidiNotes |-> <<0, 0, 0>>]]
    ELSE LET lead == PitchMapper_quantizeToScale(m, detector.detectedMidiNote)
         IN [m EXCEPT !.lastResult =
               [detectedMidiNote |-> detector.detectedMidiNote,
                detectedFrequencyHz |-> detector.detectedFrequencyHz,
                isVoiced |-> TRUE,
                leadTargetMidiNote |-> lead,
                leadTargetFrequencyHz |-> midiNoteToFrequency(lead),
                centsOffTarget |-> detector.detectedMidiNote - lead,
                harmonyTargetMidiNotes |->
                  [i \in 1..3 |->
                     IF m.harmonySettings[i].enabled
                       THEN PitchMapper_calculateHarmonyTarget(m, i, lead)
                       ELSE 0]]]

PitchMapper_reset(m) == [m EXCEPT !.lastResult = PitchMappingResultNew]

---------------------------------------------------------------------------
(* PitchDetector (YIN).  Samples are small integers (YIN only compares      *)
(* ratios of sums of squares).  The input ring is at least twice the frame, *)
(* so the analysis frame is always the last frameSize samples written;      *)
(* inputRingBuffer holds exactly those, oldest first.  d'(tau) is the       *)
(* integer d'(tau) * YinScale, a period p is p * PeriodScale.               *)

YinScale == 10000
PeriodScale == 1000
yinThreshold == 1500
fallbackThreshold == 5000
pitchDetectionFrameSize == 2048
pitchDetectionHopSize == 256

InputTypes == {"Soprano", "AltoTenor", "LowMale", "Instrument"}

minFreqOf(type) ==
  CASE type = "Soprano" -> 220
    [] type = "AltoTenor" -> 110
    [] type = "LowMale" -> 65
    [] OTHER -> 50

maxFreqOf(type) ==
  CASE type = "Soprano" -> 1200
    [] type = "AltoTenor" -> 750
    [] type = "LowMale" -> 450
    [] OTHER -> 2000

Zeros(n) == [i \in 1..n |-> 0]

PitchDetectorNew ==
  [sampleRate |-> 44100, frameSize |-> pitchDetectionFrameSize,
   hopSize |-> pitchDetectionHopSize, inputType |-> "AltoTenor",
   minFreqHz |-> 110, maxFreqHz |-> 750,
   detectedFrequencyHz |-> 0, detectedMidiNote |-> 0, detectedPeriod |-> 0,
   voiced |-> FALSE, confidence |-> 0,
   inputRingBuffer |-> <<>>, ringSize |-> ringBufferSize,
   ringBufferWritePos |-> 0, samplesUntilNextAnalysis |-> 0,
   analysisFrame |-> <<>>, yinBuffer |-> <<>>,
   prepared |-> FALSE, analyses |-> 0, dividedByZero |-> FALSE]

PitchDetector_reset(q) ==
  [q EXCEPT !.inputRingBuffer = Zeros(q.frameSize),
            !.ringBufferWritePos = 0,
            !.samplesUntilNextAnalysis = 0,
            !.detectedFrequencyHz = 0,
            !.detectedMidiNote = 0,
            !.detectedPeriod = 0,
            !.voiced = FALSE,
            !.confidence = 0,
            !.analyses = 0]

\* updateFrequencyRange
PitchDetector_setInputType(q, type) ==
  [q EXCEPT !.inputType = type,
            !.minFreqHz = minFreqOf(type),
            !.maxFreqHz = maxFreqOf(type)]

PitchDetector_prepare(q, sr, maxBlockSize) ==
  LET fs == Min(nextPowerOfTwo((46 * sr) \div 1000), 4096)
  IN PitchDetector_reset(
       [PitchDetector_setInputType(q, q.inputType) EXCEPT
          !.sampleRate = sr,
          !.frameSize = fs,
          !.hopSize = fs \div 8,
          !.analysisFrame = Zeros(fs),
          !.yinBuffer = Zeros(fs \div 2),
          !.ringSize = nextPowerOfTwo(Max(ringBufferSize, fs * 2)),
          !.prepared = TRUE])

RECURSIVE SumSquares(_, _, _)
SumSquares(input, tau, j) ==
  IF j = 0 THEN 0
  ELSE LET diff == input[j] - input[j + tau]
       IN diff * diff + SumSquares(input, tau, j - 1)

\* d(tau) for tau = 0..yinSize-1, at index tau + 1
computeDifferenceFunction(input) ==
  LET yinSize == Len(input) \div 2
  IN [t \in 1..yinSize |-> IF t = 1 THEN 0 ELSE SumSquares(input, t - 1, yinSize)]

RECURSIVE cumulativeSum(_, _)
cumulativeSum(d, tau) == IF tau = 0 THEN 0 ELSE d[tau + 1] + cumulativeSum(d, tau - 1)

\* d'(tau) that keeps 0 where the cumulative sum is zero
cmnd_zeroForSilence(d) ==
  [t \in 1..Len(d) |->
     IF t = 1 THEN YinScale
     ELSE IF cumulativeSum(d, t - 1) > 0
       THEN (d[t] * (t - 1) * YinScale) \div cumulativeSum(d, t - 1)
       ELSE 0]

\* d'(tau): the quotient is computed first and overwritten with 1.0 when the
\* cumulative sum is not positive, so the value left in yinBuffer is this
computeCumulativeMeanNormalizedDifference(d) ==
  [t \in 1..Len(d) |->
     IF t = 1 THEN YinScale
     ELSE IF cumulativeSum(d, t - 1) > 0
       THEN (d[t] * (t - 1) * YinScale) \div cumulativeSum(d, t - 1)
       ELSE YinScale]

\* The division by cumulativeSum is executed for every tau >= 1, also when the
\* sum is zero
DividesByZero(d) == \E t \in 2..Len(d) : cumulativeSum(d, t - 1) = 0

RECURSIVE localMinimum(_, _, _)
localMinimum(yin, tau, maxTau) ==
  IF tau + 1 < maxTau /\ yin[tau + 2] < yin[tau + 1]
    THEN localMinimum(yin, tau + 1, maxTau)
    ELSE tau

RECURSIVE thresholdScan(_, _, _)
thresholdScan(yin, tau, maxTau) ==
  IF tau >= maxTau THEN -1
  ELSE IF yin[tau + 1] < yinThreshold THEN localMinimum(yin, tau, maxTau)
  ELSE thresholdScan(yin, tau + 1, maxTau)

\* The first index of the least value among minTau..maxTau-1 (minTau itself
\* always counts)
globalMinimum(yin, minTau, maxTau) ==
  LET cand == {minTau} \cup (minTau + 1)..(maxTau - 1)
  IN CHOOSE t \in cand :
       /\ \A u \in cand : yin[t + 1] <= yin[u + 1]
       /\ \A u \in cand : yin[u + 1] = yin[t + 1] => t <= u

\* The raw period in samples, 0 for unvoiced
absoluteThreshold(q, yin) ==
  LET minTau == Max(2, q.sampleRate \div q.maxFreqHz)
      maxTau == Min(q.sampleRate \div q.minFreqHz, Len(yin) - 1)
      found == thresholdScan(yin, minTau, maxTau)
      minIndex == globalMinimum(yin, minTau, maxTau)
  IN IF found >= 0 THEN found
     ELSE IF yin[minIndex + 1] < fallbackThreshold THEN minIndex
     ELSE 0

parabolicInterpolation(yin, tauEstimate) ==
  IF tauEstimate < 1 \/ tauEstimate >= Len(yin) - 1
    THEN tauEstimate * PeriodScale
    ELSE LET y0 == yin[tauEstimate]
             y1 == yin[tauEstimate + 1]
             y2 == yin[tauEstimate + 2]
             denominator == 2 * (y0 - 2 * y1 + y2)
         IN IF denominator = 0 THEN tauEstimate * PeriodScale
            ELSE tauEstimate * PeriodScale
                   + TruncDiv((y0 - y2) * PeriodScale, denominator)

periodToFrequency(q, periodSamples) ==
  IF periodSamples <= 0 THEN 0
  ELSE (q.sampleRate * PeriodScale * FreqScale) \div periodSamples

\* The branch of process taken when a candidate period was found but its
\* frequency is outside the range: frequency and note are left as they are
outOfRange(q, freq, period) ==
  [q EXCEPT !.detectedPeriod = period, !.detectedFrequencyHz = freq,
            !.voiced = FALSE, !.confidence = 0]

\* One analysis: the body of "if (--samplesUntilNextAnalysis <= 0)"
analyse(q) ==
  LET frame == q.inputRingBuffer
      d == computeDifferenceFunction(frame)
      yin == computeCumulativeMeanNormalizedDifference(d)
      rawPeriod == absoluteThreshold(q, yin)
      period == parabolicInterpolation(yin, rawPeriod)
      freq == periodToFrequency(q, period)
      q1 == [q EXCEPT !.samplesUntilNextAnalysis = q.hopSize,
                      !.analysisFrame = frame,
                      !.yinBuffer = yin,
                      !.analyses = @ + 1,
                      !.dividedByZero = DividesByZero(d)]
  IN IF rawPeriod > 0
       THEN IF freq >= q.minFreqHz * FreqScale /\ freq <= q.maxFreqHz * FreqScale
              THEN [q1 EXCEPT !.detectedPeriod = period,
                              !.detectedFrequencyHz = freq,
                              !.voiced = TRUE,
                              !.detectedMidiNote = frequencyToMidiNote(freq),
                              !.confidence =
                                 IF rawPeriod < Len(yin)
                                   THEN Clamp(YinScale - yin[rawPeriod + 1], 0, YinScale)
                                   ELSE @]
              ELSE outOfRange(q1, freq, period)
       ELSE [q1 EXCEPT !.voiced = FALSE, !.detectedFrequencyHz = 0,
                       !.detectedMidiNote = 0, !.detectedPeriod = 0,
                       !.confidence = 0]

\* detectSample that lets the counter go below zero before it analyses
detectSample_lateTrigger(q, sample) ==
  LET q1 == [q EXCEPT !.inputRingBuffer = Append(Tail(@), sample),
                      !.ringBufferWritePos = (@ + 1) % q.ringSize,
                      !.samplesUntilNextAnalysis = @ - 1]
  IN IF q1.samplesUntilNextAnalysis < 0 THEN analyse(q1) ELSE q1

\* One sample of process
detectSample(q, sample) ==
  LET q1 == [q EXCEPT !.inputRingBuffer = Append(Tail(@), sample),
                      !.ringBufferWritePos = (@ + 1) % q.ringSize,
                      !.samplesUntilNextAnalysis = @ - 1]
  IN IF q1.samplesUntilNextAnalysis <= 0 THEN analyse(q1) ELSE q1

RECURSIVE detectLoop(_, _, _)
detectLoop(q, mono, i) ==
  IF i > Len(mono) THEN q
  ELSE detectLoop(Strict(LAMBDA x : detectSample(x, mono[i]), q), mono, i + 1)

PitchDetector_process(q, mono) == detectLoop(q, mono, 1)

---------------------------------------------------------------------------
(* Parameters (the APVTS snapshot the components read).  Levels are in dB, *)
(* mix in percent, humanize ranges in ms and cents.                        *)

VoiceParamsDefault ==
  [enabled |-> FALSE, mode |-> "Diatonic", intervalDiatonic |-> 7,
   intervalSemi |-> 0, level |-> 0, humTiming |-> 0, humPitch |-> 0]

DefaultParams ==
  [inputType |-> "Instrument", key |-> 0, scale |-> "Major",
   retuneSpeed |-> 50, humanize |-> 0, mix |-> 100,
   voices |-> <<VoiceParamsDefault, VoiceParamsDefault, VoiceParamsDefault>>]

---------------------------------------------------------------------------
(* LeadCorrection.  Of the per-channel shifters one is kept: they are set  *)
(* to the same ratio and fed the same number of samples.                   *)

RECURSIVE SmoothN(_, _, _, _)
SmoothN(current, target, coeff, n) ==
  IF n = 0 THEN current
  ELSE IF n = 1 THEN SmoothStep(current, target, coeff)
  ELSE Strict(LAMBDA x : SmoothN(x, target, coeff, n - n \div 2),
              SmoothN(current, target, coeff, n \div 2))

\* 400 ms * (0.5/400)^(speed/100) in tenths of a millisecond;
\* log2(400/0.5) = 9.64386 octaves
retuneSpeedToTimeConstantMs(speed) ==
  (4000 * Pow2Cents(-((115726 * speed) \div 1000))) \div RatioScale

\* One humanizePhase unit is the 0.00005 rad step of applyHumanization
PhaseWrap == 125664

LeadCorrectionNew ==
  [sampleRate |-> 44100, blockSize |-> 512,
   retuneSpeed |-> 50, humanizeAmount |-> 25, mix |-> 100,
   targetPitchRatio |-> RatioScale, currentPitchRatio |-> RatioScale,
   pitchRatioSmoothingCoeff |-> 1000, humanizePhase |-> 0,
   shifter |-> PitchShifterNew,
   steady |-> 0]   \* process calls in a row with the same target and speed

LeadCorrection_reset(l) ==
  [l EXCEPT !.shifter = PitchShifter_reset(@),
            !.targetPitchRatio = RatioScale,
            !.currentPitchRatio = RatioScale,
            !.humanizePhase = 0,
            !.steady = 0]

LeadCorrection_prepare(l, sr, maxBlockSize) ==
  LeadCorrection_reset(
    [l EXCEPT !.sampleRate = sr,
              !.blockSize = maxBlockSize,
              !.shifter = PitchShifter_prepare(@, sr, maxBlockSize),
              !.pitchRatioSmoothingCoeff =
                 calculateSmoothingCoeff(
                   retuneSpeedToTimeConstantMs(l.retuneSpeed), sr)])

LeadCorrection_updateFromParameters(l, p) ==
  LET speed == Clamp(p.retuneSpeed, 0, 100)
  IN [l EXCEPT !.retuneSpeed = speed,
               !.pitchRatioSmoothingCoeff =
                  calculateSmoothingCoeff(retuneSpeedToTimeConstantMs(speed),
                                          l.sampleRate),
               !.humanizeAmount = Clamp(p.humanize, 0, 100),
               !.mix = Clamp(p.mix, 0, 100),
               !.steady = IF speed = l.retuneSpeed THEN @ ELSE 0]

calculateTargetPitchRatio(detector, mapper) ==
  IF ~detector.voiced THEN RatioScale
  ELSE IF \/ mapper.lastResult.leadTargetFrequencyHz <= 0
          \/ mapper.lastResult.detectedFrequencyHz <= 0
    THEN RatioScale
  ELSE Clamp((mapper.lastResult.leadTargetFrequencyHz * RatioScale)
               \div mapper.lastResult.detectedFrequencyHz,
             minPitchShiftRatio, maxPitchShiftRatio)

\* <<ratio, humanizePhase>> after applyHumanization.  The drift LFO
\* 0.5 sin(p) + 0.3 sin(2.7 p) + 0.2 sin(4.1 p) is taken at its small-angle
\* value 2.13 p (p stays below 0.001 rad within the block budget).
applyHumanization(l, targetRatio) ==
  IF l.humanizeAmount <= 0 THEN <<targetRatio, l.humanizePhase>>
  ELSE LET blendedRatio ==
             targetRatio + TruncDiv((RatioScale - targetRatio) * l.humanizeAmount, 200)
           phase == IF l.humanizePhase + 1 > PhaseWrap
                      THEN l.humanizePhase + 1 - PhaseWrap
                      ELSE l.humanizePhase + 1
           driftCents == (213 * phase * 8 * l.humanizeAmount) \div 200000000
       IN <<(blendedRatio * Pow2Cents(driftCents)) \div RatioScale, phase>>

\* process whose smoothed ratio lands beyond the target, as far from it as
\* the old ratio was
process_overshoots(l, detector, mapper, numSamples) ==
  LET t0 == calculateTargetPitchRatio(detector, mapper)
      h == IF l.humanizeAmount > 0 /\ detector.voiced
             THEN applyHumanization(l, t0)
             ELSE <<t0, l.humanizePhase>>
      smoothedRatio == h[1] - (l.currentPitchRatio - h[1])
  IN [l EXCEPT !.targetPitchRatio = h[1],
               !.humanizePhase = h[2],
               !.currentPitchRatio = smoothedRatio,
               !.shifter = PitchShifter_process(
                             PitchShifter_setPitchRatio(@, smoothedRatio),
                             numSamples),
               !.steady = IF h[1] = l.targetPitchRatio THEN @ + 1 ELSE 1]

LeadCorrection_process(l, detector, mapper, numSamples) ==
  LET t0 == calculateTargetPitchRatio(detector, mapper)
      h == IF l.humanizeAmount > 0 /\ detector.voiced
             THEN applyHumanization(l, t0)
             ELSE <<t0, l.humanizePhase>>
      smoothedRatio == SmoothN(l.currentPitchRatio, h[1],
                               l.pitchRatioSmoothingCoeff, numSamples)
  IN [l EXCEPT !.targetPitchRatio = h[1],
               !.humanizePhase = h[2],
               !.currentPitchRatio = smoothedRatio,
               !.shifter = PitchShifter_process(
                             PitchShifter_setPitchRatio(@, smoothedRatio),
                             numSamples),
               !.steady = IF h[1] = l.targetPitchRatio THEN @ + 1 ELSE 1]

---------------------------------------------------------------------------
(* HarmonyVoice.  Gains are in units of 1/GainScale, pitchHumanizeOffset   *)
(* in 1/HumScale cent.  The formant processor and the delay line of the    *)
(* timing humanization only transform samples and are not modelled.        *)
(* processed tells whether the latest process call rendered the block or   *)
(* returned at once, fadeBlocks counts the blocks rendered in a row while  *)
(* the voice was disabled.                                                 *)

GainScale == 100000
HumScale == 10
gainSmoothingTenthMs == 100
fadeThreshold == GainScale \div 1000

\* 10^(db/20) = 2^(db * 0.16610): 199.3 "cents" per dB
dbToGain(db) == (GainScale * Pow2Cents((db * 1993) \div 10)) \div RatioScale

HarmonyVoiceNew ==
  [sampleRate |-> 44100, maxBlockSize |-> 512,
   enabled |-> FALSE, mode |-> "Diatonic", diatonicIntervalIndex |-> 7,
   semitoneOffset |-> 0, levelDb |-> 0,
   humanizeTimingMs |-> 0, humanizePitchCents |-> 0,
   targetGain |-> 0, currentGain |-> 0,
   pitchRatioSmoothing |-> 100, gainSmoothing |-> 100,
   humanizeUpdateInterval |-> 4410, samplesSinceHumanizeUpdate |-> 0,
   pitchHumanizeOffset |-> 0, timingHumanizeTarget |-> 0,
   currentHarmonyMidi |-> 0, harmonyMidi |-> 0,
   targetPitchRatio |-> RatioScale, currentPitchRatio |-> RatioScale,
   shifter |-> PitchShifterNew, processed |-> FALSE, fadeBlocks |-> 0,
   maxDelaySamples |-> 0, delayWritePos |-> 0, currentDelaySamples |-> 0,
   delayOutOfBounds |-> FALSE]

HarmonyVoice_reset(v) ==
  [v EXCEPT !.shifter = PitchShifter_reset(@),
            !.currentHarmonyMidi = 0,
            !.harmonyMidi = 0,
            !.targetPitchRatio = RatioScale,
            !.currentPitchRatio = RatioScale,
            !.targetGain = 0,
            !.currentGain = 0,
            !.pitchHumanizeOffset = 0,
            !.timingHumanizeTarget = 0,
            !.samplesSinceHumanizeUpdate = 0,
            !.processed = FALSE,
            !.fadeBlocks = 0,
            !.delayWritePos = 0,
            !.currentDelaySamples = 0]

HarmonyVoice_prepare(v, sr, maxBlock) ==
  HarmonyVoice_reset(
    [v EXCEPT !.sampleRate = sr,
              !.maxBlockSize = maxBlock,
              !.shifter = PitchShifter_prepare(@, sr, maxBlock),
              !.pitchRatioSmoothing =
                 calculateSmoothingCoeff(pitchSmoothingTenthMs, sr),
              !.gainSmoothing =
                 calculateSmoothingCoeff(gainSmoothingTenthMs, sr),
              !.humanizeUpdateInterval = sr \div 10,
              !.maxDelaySamples = (5 * sr) \div 100])

HarmonyVoice_updateFromParameters(v, voiceIndex, p) ==
  IF voiceIndex < 1 \/ voiceIndex > 3 THEN v
  ELSE LET vp == p.voices[voiceIndex]
       IN [v EXCEPT !.enabled = vp.enabled,
                    !.mode = vp.mode,
                    !.diatonicIntervalIndex = vp.intervalDiatonic,
                    !.semitoneOffset = vp.intervalSemi,
                    !.levelDb = vp.level,
                    !.humanizeTimingMs = vp.humTiming,
                    !.humanizePitchCents = vp.humPitch,
                    !.targetGain = IF vp.enabled THEN dbToGain(vp.level) ELSE 0]

\* The voice after calculateHarmonyPitchRatio, its return value stored in
\* targetPitchRatio as process does.  harmonyMidi is the target note before
\* the humanization offset is added, currentHarmonyMidi the one after.
HarmonyVoice_calculateHarmonyPitchRatio(v, detector, mapper) ==
  LET leadMidi == mapper.lastResult.leadTargetMidiNote
      note == IF v.mode = "Diatonic"
                THEN leadMidi
                       + MidiScale * Utils_diatonicToSemitones(
                                       diatonicIndexToScaleDegree(
                                         v.diatonicIntervalIndex),
                                       getScaleIntervals(mapper.currentScale))
              ELSE IF v.mode = "Semitone"
                THEN leadMidi + MidiScale * v.semitoneOffset
              ELSE leadMidi
      humanized == note + TruncDiv(v.pitchHumanizeOffset, HumScale)
  IN IF ~detector.voiced THEN [v EXCEPT !.targetPitchRatio = RatioScale]
     ELSE IF leadMidi <= 0 THEN [v EXCEPT !.targetPitchRatio = RatioScale]
     ELSE IF detector.detectedMidiNote <= 0
       THEN [v EXCEPT !.harmonyMidi = note,
                      !.currentHarmonyMidi = humanized,
                      !.targetPitchRatio = RatioScale]
     ELSE [v EXCEPT !.harmonyMidi = note,
                    !.currentHarmonyMidi = humanized,
                    !.targetPitchRatio =
                       Clamp(getPitchRatio(humanized, detector.detectedMidiNote),
                             minPitchShiftRatio, maxPitchShiftRatio)]

\* draw = <<pitch, timing>>: the two randomFloat results, pitch in -1..1 of
\* the range, timing in 0..1 of the range
updateHumanization(v, draw) ==
  [v EXCEPT !.pitchHumanizeOffset =
               @ + TruncDiv(draw[1] * v.humanizePitchCents * HumScale - @, 10),
            !.timingHumanizeTarget =
               (draw[2] * v.humanizeTimingMs * v.sampleRate) \div 1000]

\* The delay line of the first channel.  currentDelaySamples is in units of
\* 1/DelayScale samples; delayOutOfBounds records that idx0 or idx1 was
\* outside [0, maxDelaySamples) when the delay line was read.
DelayScale == 1000

\* One sample of applyTimingHumanization; delaySmoothing is 0.001
delaySample(v) ==
  LET cd == v.currentDelaySamples
              + TruncDiv(v.timingHumanizeTarget * DelayScale
                           - v.currentDelaySamples, 1000)
      raw == v.delayWritePos * DelayScale - cd
      readPos == IF raw < 0 THEN raw + v.maxDelaySamples * DelayScale ELSE raw
      readPosInt == TruncDiv(readPos, DelayScale)
      idx0 == CMod(readPosInt, v.maxDelaySamples)
      idx1 == CMod(readPosInt + 1, v.maxDelaySamples)
  IN [v EXCEPT !.currentDelaySamples = cd,
               !.delayWritePos = (@ + 1) % v.maxDelaySamples,
               !.delayOutOfBounds =
                  \/ @
                  \/ idx0 \notin 0..(v.maxDelaySamples - 1)
                  \/ idx1 \notin 0..(v.maxDelaySamples - 1)]

RECURSIVE delayLoop(_, _)
delayLoop(v, n) ==
  IF n = 0 THEN v
  ELSE IF n = 1 THEN Strict(delaySample, v)
  ELSE LET firstHalf(x) == delayLoop(x, n \div 2)
           secondHalf(x) == delayLoop(x, n - n \div 2)
       IN Strict(secondHalf, Strict(firstHalf, v))

applyTimingHumanization(v, numSamples) ==
  IF v.humanizeTimingMs <= 0 THEN v ELSE delayLoop(v, numSamples)

\* process that returns at once for every disabled voice
process_cutsOnDisable(v, detector, mapper, numSamples, draw) ==
  IF ~v.enabled
    THEN [v EXCEPT !.processed = FALSE, !.fadeBlocks = 0]
    ELSE LET since == v.samplesSinceHumanizeUpdate + numSamples
             v1 == IF since >= v.humanizeUpdateInterval
                     THEN [updateHumanization(v, draw) EXCEPT
                             !.samplesSinceHumanizeUpdate = 0]
                     ELSE [v EXCEPT !.samplesSinceHumanizeUpdate = since]
             v2 == HarmonyVoice_calculateHarmonyPitchRatio(v1, detector, mapper)
             ratio == SmoothN(v2.currentPitchRatio, v2.targetPitchRatio,
                              v2.pitchRatioSmoothing, numSamples)
         IN applyTimingHumanization(
              [v2 EXCEPT !.currentPitchRatio = ratio,
                         !.shifter = PitchShifter_process(
                                       PitchShifter_setPitchRatio(@, ratio),
                                       numSamples),
                         !.currentGain = SmoothN(@, v2.targetGain,
                                                 v2.gainSmoothing, numSamples),
                         !.processed = TRUE,
                         !.fadeBlocks = IF v2.enabled THEN 0 ELSE @ + 1],
              numSamples)

HarmonyVoice_process(v, detector, mapper, numSamples, draw) ==
  IF ~v.enabled /\ ~(v.currentGain > fadeThreshold)
    THEN [v EXCEPT !.processed = FALSE, !.fadeBlocks = 0]
    ELSE LET v0 == IF ~v.enabled THEN [v EXCEPT !.targetGain = 0] ELSE v
             since == v0.samplesSinceHumanizeUpdate + numSamples
             v1 == IF since >= v0.humanizeUpdateInterval
                     THEN [updateHumanization(v0, draw) EXCEPT
                             !.samplesSinceHumanizeUpdate = 0]
                     ELSE [v0 EXCEPT !.samplesSinceHumanizeUpdate = since]
             v2 == HarmonyVoice_calculateHarmonyPitchRatio(v1, detector, mapper)
             ratio == SmoothN(v2.currentPitchRatio, v2.targetPitchRatio,
                              v2.pitchRatioSmoothing, numSamples)
         IN applyTimingHumanization(
              [v2 EXCEPT !.currentPitchRatio = ratio,
                         !.shifter = PitchShifter_process(
                                       PitchShifter_setPitchRatio(@, ratio),
                                       numSamples),
                         !.currentGain = SmoothN(@, v2.targetGain,
                                                 v2.gainSmoothing, numSamples),
                         !.processed = TRUE,
                         !.fadeBlocks = IF v2.enabled THEN 0 ELSE @ + 1],
              numSamples)

\* The juce::Random behind NovaTuneUtils::randomFloat is a function-local
\* static: one linear congruential generator for every caller.  The model
\* keeps the recurrence and reduces the width to RandomModulus.
RandomModulus == 16

Random_next(seed) == (seed * 5 + 11) % RandomModulus

\* The two randomFloat calls of updateHumanization: the draw (pitch -1, 0 or 1
\* of the range, timing 0 or 1 of the range) and the generator afterwards
randomFloat(seed) ==
  LET s1 == Random_next(seed)
      s2 == Random_next(s1)
  IN [draw |-> <<(3 * s1) \div RandomModulus - 1, (2 * s2) \div RandomModulus>>,
      seed |-> s2]

\* The voice draws random numbers in this block
WillDraw(v, numSamples) ==
  /\ v.enabled \/ v.currentGain > fadeThreshold
  /\ v.samplesSinceHumanizeUpdate + numSamples >= v.humanizeUpdateInterval

---------------------------------------------------------------------------
(* TunerEngine                                                             *)

\* getLatencySamples that adds the latency of the enabled harmony voices
getLatencySamples_addsVoices(lead, voices) ==
  (IF lead.shifter.prepared THEN lead.shifter.latencySamples ELSE 0)
    + (IF \E i \in 1..3 : voices[i].enabled
         THEN voices[1].shifter.latencySamples ELSE 0)

\* TunerEngine::getLatencySamples: the latency of LeadCorrection, which is
\* that of its first shifter (0 while it has none)
TunerEngine_getLatencySamples(lead, voices) ==
  IF lead.shifter.prepared THEN lead.shifter.latencySamples ELSE 0

TunerEngineNew ==
  [sampleRate |-> 44100, samplesPerBlock |-> 512, numChannels |-> 2,
   prepared |-> FALSE,
   writes |-> 0,       \* parameter stores of the control thread so far
   reprepared |-> 0]   \* re-preparations after a block size change so far

---------------------------------------------------------------------------
(* Inputs of the shifter specifications                                    *)

SampleRates == {8000, 96000}
MaxBlocks == {64, 512}
BlockSizes == {1, 300}
RatioArgs == {-10000, 30000}
SemitoneArgs == {7}
MaxCalls == 3

\* The audio thread's position inside TunerEngine::process.  pc names the
\* statement group that runs next ("idle": no call in progress), input is the
\* block handed in, stages the statement groups this call has run so far.
\* The contents of the engine's buffers are kept as tags: leadBuffer is
\* "clear", "raw" (copy of the input) or "corrected", harmonyBuffer the
\* sequence of voices that have added to it since it was cleared, and
\* voiceSource[i] what leadBuffer held when voice i copied it ("none" when
\* the voice returned at once).  lastLength is the length of the block of
\* the call before, resized tells whether this call re-prepared.
ProcessCallNew ==
  [pc |-> "idle", input |-> <<>>, lastLength |-> 0,
   resized |-> FALSE, stages |-> <<>>,
   leadBuffer |-> "clear", harmonyBuffer |-> <<>>,
   voiceSource |-> <<"none", "none", "none">>, output |-> "none"]

---------------------------------------------------------------------------
(* FormantProcessor.  The shift ratios are in units of 1/RatioScale.  The  *)
(* filter banks are kept as what determines them: synthesisRatio is the    *)
(* shift ratio the synthesis coefficients were last computed for (0 before *)
(* prepare), filterSamples the samples run through the filters since their *)
(* state was cleared, envelopeSamples the samples the band envelope        *)
(* followers have tracked since they were zeroed.  buffer says what the    *)
(* caller's buffer holds after the last process call.                      *)

FormantProcessorNew ==
  [ sampleRate |-> 44100,
    latencySamples |-> 0,
    formantShiftSemitones |-> 0,
    pitchCompensationRatio |-> RatioScale,
    currentShiftRatio |-> RatioScale,
    targetShiftRatio |-> RatioScale,
    shiftSmoothingCoeff |-> CoeffScale \div 100,
    envelopeSmoothingCoeff |-> CoeffScale \div 100,
    synthesisRatio |-> 0,
    filterSamples |-> 0,
    envelopeSamples |-> 0,
    prepared |-> FALSE,
    buffer |-> "none" ]

\* The 0.001 of the fast path and of ratioChanged
shiftThreshold == RatioScale \div 1000

FormantProcessor_updateFilters(q) ==
  [q EXCEPT !.synthesisRatio = q.currentShiftRatio]

FormantProcessor_reset(q) ==
  [q EXCEPT !.filterSamples = 0,
            !.envelopeSamples = 0,
            !.currentShiftRatio = q.targetShiftRatio]

FormantProcessor_prepare(q, sr) ==
  FormantProcessor_reset(
    [ FormantProcessor_updateFilters(
        [q EXCEPT !.sampleRate = sr,
                  !.shiftSmoothingCoeff = calculateSmoothingCoeff(100, sr),
                  !.envelopeSmoothingCoeff = calculateSmoothingCoeff(50, sr)])
      EXCEPT !.latencySamples = 32,
             !.prepared = TRUE ])

FormantProcessor_calculateEffectiveShiftRatio(q) ==
  LET preservationRatio ==
        IF q.pitchCompensationRatio > 0
          THEN (RatioScale * RatioScale) \div q.pitchCompensationRatio
          ELSE RatioScale
      userShiftRatio == semitonesToRatio(q.formantShiftSemitones)
      combined == (preservationRatio * userShiftRatio) \div RatioScale
  IN Clamp(combined, RatioScale \div 2, 2 * RatioScale)

FormantProcessor_setFormantShift(q, semitones) ==
  LET q1 == [q EXCEPT !.formantShiftSemitones = Clamp(semitones, -6, 6)]
  IN [q1 EXCEPT !.targetShiftRatio =
                  FormantProcessor_calculateEffectiveShiftRatio(q1)]

FormantProcessor_setPitchCompensation(q, pitchRatio) ==
  LET q1 == [q EXCEPT !.pitchCompensationRatio = pitchRatio]
  IN [q1 EXCEPT !.targetShiftRatio =
                  FormantProcessor_calculateEffectiveShiftRatio(q1)]

\* process without the fast path: filters whatever the ratios are
process_alwaysFilters(q, numSamples) ==
  LET smoothed == SmoothN(q.currentShiftRatio, q.targetShiftRatio,
                          q.shiftSmoothingCoeff, numSamples)
      ratioChanged ==
        Abs(SmoothStep(q.currentShiftRatio, q.targetShiftRatio,
                       q.shiftSmoothingCoeff) - q.currentShiftRatio)
          > shiftThreshold
      q1 == [q EXCEPT !.currentShiftRatio = smoothed]
      q2 == IF ratioChanged THEN FormantProcessor_updateFilters(q1) ELSE q1
  IN [q2 EXCEPT !.filterSamples = @ + numSamples,
                !.envelopeSamples = @ + numSamples,
                !.buffer = "synthesis"]

\* The steps of the smoother shrink from sample to sample, so the first
\* step of the block decides ratioChanged
FormantProcessor_process(q, numSamples) ==
  IF /\ Abs(q.currentShiftRatio - RatioScale) < shiftThreshold
     /\ Abs(q.targetShiftRatio - RatioScale) < shiftThreshold
    THEN [q EXCEPT !.buffer = "input"]
    ELSE
      LET smoothed == SmoothN(q.currentShiftRatio, q.targetShiftRatio,
                              q.shiftSmoothingCoeff, numSamples)
          ratioChanged ==
            Abs(SmoothStep(q.currentShiftRatio, q.targetShiftRatio,
                           q.shiftSmoothingCoeff) - q.currentShiftRatio)
              > shiftThreshold
          q1 == [q EXCEPT !.currentShiftRatio = smoothed]
          q2 == IF ratioChanged
                  THEN FormantProcessor_updateFilters(q1) ELSE q1
      IN [q2 EXCEPT !.filterSamples = @ + numSamples,
                    !.envelopeSamples = @ + numSamples,
                    !.buffer = "synthesis"]

MapperQueryNew ==
  [op |-> "none", midiNote |-> 0, degrees |-> 0, result |-> 0, again |-> 0]

Init ==
  /\ ps = PitchShifterNew
  /\ calls = 0
  /\ pm = PitchMapperNew
  /\ mq = MapperQueryNew
  /\ pd = PitchDetectorNew
  /\ apvts = DefaultParams
  /\ eng = TunerEngineNew
  /\ lc = LeadCorrectionNew
  /\ hv = <<HarmonyVoiceNew, HarmonyVoiceNew, HarmonyVoiceNew>>
  /\ run = ProcessCallNew
  /\ random = 0
  /\ twin = [hv |-> <<HarmonyVoiceNew, HarmonyVoiceNew, HarmonyVoiceNew>>,
             random |-> 0]
  /\ fp = FormantProcessorNew

Prepare(sr, maxBlock) ==
  /\ ps' = PitchShifter_prepare(ps, sr, maxBlock)
  /\ calls' = 0
  /\ UNCHANGED <<mapperVars, pd, engineVars>>

Reset ==
  /\ ps.prepared
  /\ ps' = PitchShifter_reset(ps)
  /\ UNCHANGED <<calls, mapperVars, pd, engineVars>>

SetPitchRatio(ratio) ==
  /\ ps' = PitchShifter_setPitchRatio(ps, ratio)
  /\ UNCHANGED <<calls, mapperVars, pd, engineVars>>

SetPitchSemitones(semitones) ==
  /\ ps' = PitchShifter_setPitchSemitones(ps, semitones)
  /\ UNCHANGED <<calls, mapperVars, pd, engineVars>>

Process(numSamples) ==
  /\ ps.prepared
  /\ calls < MaxCalls
  /\ ps' = PitchShifter_process(ps, numSamples)
  /\ calls' = calls + 1
  /\ UNCHANGED <<mapperVars, pd, engineVars>>

NextShifter ==
  \/ \E sr \in SampleRates, mb \in MaxBlocks : Prepare(sr, mb)
  \/ Reset
  \/ \E r \in RatioArgs : SetPitchRatio(r)
  \/ \E s \in SemitoneArgs : SetPitchSemitones(s)
  \/ \E n \in BlockSizes : Process(n)

SpecShifter == Init /\ [][NextShifter]_vars

\* The shifter prepared for sample rates below, inside and above the range
\* in which the 25 ms window is not clamped, and for small and large blocks
SizeSampleRates == {8000, 20000, 44100, 96000}
SizeMaxBlocks == {1, 64, 1000}

NextSizes ==
  \/ \E sr \in SizeSampleRates, mb \in SizeMaxBlocks : Prepare(sr, mb)
  \/ Reset
  \/ \E r \in RatioArgs : SetPitchRatio(r)
  \/ \E n \in BlockSizes : Process(n)

SpecSizes == Init /\ [][NextSizes]_vars

\* An unending input stream at the ratio the shifter was constructed with
\* (1.0): prepare once, then process block after block of maxBlockSize samples.
StreamPrepare(sr, maxBlock) ==
  /\ ~ps.prepared
  /\ ps' = PitchShifter_prepare(ps, sr, maxBlock)
  /\ UNCHANGED <<calls, mapperVars, pd, engineVars>>

StreamProcess ==
  /\ ps.prepared
  /\ ps' = PitchShifter_process(ps, ps.maxBlockSize)
  /\ UNCHANGED <<calls, mapperVars, pd, engineVars>>

NextStream ==
  \/ \E sr \in SampleRates, mb \in MaxBlocks : StreamPrepare(sr, mb)
  \/ StreamProcess

SpecStream == Init /\ [][NextStream]_vars /\ WF_vars(NextStream)

---------------------------------------------------------------------------
(* The PitchMapper under every key and scale.  mq records the last call of *)
(* quantizeToScale / diatonicToSemitones: its arguments, its result and,   *)
(* for quantizeToScale, the result of quantizing the result again.         *)

MapperParams(key, scale) == [DefaultParams EXCEPT !.key = key, !.scale = scale]

QuarterTone == MidiScale \div 4
LowNote == 60
HighNote == 68
MidiNotes == {n * QuarterTone : n \in (LowNote * 4)..(HighNote * 4)}
BaseNotes == {n * MidiScale : n \in LowNote..HighNote}
ScaleDegrees == -7..7

MapperUpdate(key, scale) ==
  /\ pm' = PitchMapper_updateFromParameters(pm, MapperParams(key, scale))
  /\ mq' = MapperQueryNew
  /\ UNCHANGED <<shifterVars, pd, engineVars>>

Quantize(midiNote) ==
  /\ mq' = LET r == PitchMapper_quantizeToScale(pm, midiNote)
           IN [op |-> "quantize", midiNote |-> midiNote, degrees |-> 0,
               result |-> r, again |-> PitchMapper_quantizeToScale(pm, r)]
  /\ UNCHANGED <<pm, shifterVars, pd, engineVars>>

Diatonic(scaleDegrees, fromMidiNote) ==
  /\ mq' = [op |-> "diatonic", midiNote |-> fromMidiNote,
            degrees |-> scaleDegrees,
            result |-> PitchMapper_diatonicToSemitones(pm, scaleDegrees,
                                                       fromMidiNote),
            again |-> 0]
  /\ UNCHANGED <<pm, shifterVars, pd, engineVars>>

NextMapper ==
  \/ \E key \in Keys, scale \in Scales : MapperUpdate(key, scale)
  \/ \E n \in MidiNotes : Quantize(n)
  \/ \E d \in ScaleDegrees, n \in BaseNotes : Diatonic(d, n)

SpecMapper == Init /\ [][NextMapper]_vars

---------------------------------------------------------------------------
(* The PitchDetector alone, fed block after block.  The sample rates are   *)
(* low so that a whole analysis frame fits a few short blocks: 150 Hz      *)
(* gives frameSize 8 and hopSize 1, 200 Hz gives frameSize 16 and          *)
(* hopSize 2.                                                               *)

DetectorSampleRates == {150, 200}
AudioBlocks ==
  { <<0, 0, 0, 0>>, <<1, -1, 1, -1>>, <<1, 1, -1, -1>>, <<1, 0, -1>>, <<1>> }
MaxDetectorCalls == 5

DetectorPrepare(sr) ==
  /\ pd' = PitchDetector_prepare(pd, sr, 4)
  /\ calls' = 0
  /\ UNCHANGED <<ps, mapperVars, engineVars>>

DetectorReset ==
  /\ pd.prepared
  /\ pd' = PitchDetector_reset(pd)
  /\ UNCHANGED <<calls, ps, mapperVars, engineVars>>

DetectorSetInputType(type) ==
  /\ pd' = PitchDetector_setInputType(pd, type)
  /\ UNCHANGED <<calls, ps, mapperVars, engineVars>>

DetectorProcess(mono) ==
  /\ pd.prepared
  /\ calls < MaxDetectorCalls
  /\ pd' = PitchDetector_process(pd, mono)
  /\ calls' = calls + 1
  /\ UNCHANGED <<ps, mapperVars, engineVars>>

NextDetector ==
  \/ \E sr \in DetectorSampleRates : DetectorPrepare(sr)
  \/ DetectorReset
  \/ \E t \in InputTypes : DetectorSetInputType(t)
  \/ \E b \in AudioBlocks : DetectorProcess(b)

SpecDetector == Init /\ [][NextDetector]_vars

---------------------------------------------------------------------------
(* The whole engine: the host writes parameters and hands in blocks.  At   *)
(* 157 Hz the detector frame is 8 samples (hopSize 1) and an input of      *)
(* period 2 is detected near E2 (82.6 Hz, MIDI 40).                        *)

EngineSampleRates == {157}
EngineBlocks == { <<0, 0, 0, 0, 0, 0, 0, 0>>, <<1, -1, 1, -1, 1, -1, 1, -1>> }
EngineBlockSizes == {4, 8}
MaxEngineBlocks == 2

VoiceSetups ==
  { <<VoiceParamsDefault, VoiceParamsDefault, VoiceParamsDefault>>,
    <<[VoiceParamsDefault EXCEPT !.enabled = TRUE, !.intervalDiatonic = 8,
                                 !.humPitch = 15],
      [VoiceParamsDefault EXCEPT !.enabled = TRUE, !.mode = "Semitone",
                                 !.intervalSemi = 7, !.level = -6,
                                 !.humTiming = 10],
      VoiceParamsDefault>> }

EngineParams ==
  { [inputType |-> t, key |-> 0, scale |-> "Major",
     retuneSpeed |-> l[1], humanize |-> l[2], mix |-> 100, voices |-> v] :
      t \in {"Instrument", "AltoTenor"},
      l \in {<<100, 0>>, <<0, 100>>}, v \in VoiceSetups }

\* The randomFloat results of one voice for one update of its humanization
Draws == { <<-1, 1>>, <<1, 0>> }

EnginePrepare(sr, blockSize) ==
  /\ ~eng.prepared
  /\ eng' = [eng EXCEPT !.sampleRate = sr, !.samplesPerBlock = blockSize,
                        !.numChannels = 1, !.prepared = TRUE]
  /\ pd' = PitchDetector_reset(PitchDetector_prepare(pd, sr, blockSize))
  /\ pm' = PitchMapper_reset(pm)
  /\ lc' = LeadCorrection_reset(LeadCorrection_prepare(lc, sr, blockSize))
  /\ hv' = [i \in 1..3 |->
              HarmonyVoice_reset(HarmonyVoice_prepare(hv[i], sr, blockSize))]
  /\ UNCHANGED <<apvts, calls, ps, mq, run, otherVars>>

EngineReset ==
  /\ eng.prepared
  /\ pd' = PitchDetector_reset(pd)
  /\ pm' = PitchMapper_reset(pm)
  /\ lc' = LeadCorrection_reset(lc)
  /\ hv' = [i \in 1..3 |-> HarmonyVoice_reset(hv[i])]
  /\ UNCHANGED <<apvts, eng, calls, ps, mq, run, otherVars>>

SetParameters(p) ==
  /\ apvts' = p
  /\ UNCHANGED <<eng, pd, pm, lc, hv, calls, ps, mq, run, otherVars>>

\* TunerEngine::process for one block; draws[i] are the random numbers voice
\* i draws if it updates its humanization in this block
EngineProcess(buffer, draws) ==
  LET numSamples == Len(buffer)
      resized == numSamples # eng.samplesPerBlock
      lead == IF resized
                THEN LeadCorrection_prepare(lc, eng.sampleRate, numSamples)
                ELSE lc
      voice(i) == HarmonyVoice_updateFromParameters(
                    IF resized
                      THEN HarmonyVoice_prepare(hv[i], eng.sampleRate, numSamples)
                      ELSE hv[i],
                    i, apvts)
  IN /\ eng.prepared
     /\ calls < MaxEngineBlocks
     /\ \A i \in 1..3 : ~WillDraw(voice(i), numSamples) => draws[i] = <<1, 0>>
     /\ eng' = [eng EXCEPT !.samplesPerBlock = numSamples,
                           !.reprepared = IF resized THEN @ + 1 ELSE @]
     /\ pd' = PitchDetector_process(
                PitchDetector_setInputType(pd, apvts.inputType), buffer)
     /\ pm' = PitchMapper_map(PitchMapper_updateFromParameters(pm, apvts), pd')
     /\ lc' = LeadCorrection_process(
                LeadCorrection_updateFromParameters(lead, apvts),
                pd', pm', numSamples)
     /\ hv' = [i \in 1..3 |->
                 HarmonyVoice_process(voice(i), pd', pm', numSamples, draws[i])]
     /\ calls' = calls + 1
     /\ UNCHANGED <<apvts, ps, mq, run, otherVars>>

NextEngine ==
  \/ \E sr \in EngineSampleRates, n \in EngineBlockSizes : EnginePrepare(sr, n)
  \/ EngineReset
  \/ \E p \in EngineParams : SetParameters(p)
  \/ \E b \in EngineBlocks, draws \in [1..3 -> Draws] : EngineProcess(b, draws)

SpecEngine == Init /\ [][NextEngine]_vars

---------------------------------------------------------------------------
(* TunerEngine::process statement by statement, with the control thread    *)
(* (editor, host automation) writing the parameter tree while the audio    *)
(* thread is inside the call.  Every load of a raw parameter value is      *)
(* atomic; the loads of one component's updateFromParameters are taken     *)
(* together, so the control thread gets in between components only.        *)

StagedParams ==
  { [DefaultParams EXCEPT !.retuneSpeed = 100],
    [DefaultParams EXCEPT !.retuneSpeed = 0, !.humanize = 100,
       !.voices =
          <<[VoiceParamsDefault EXCEPT !.enabled = TRUE, !.intervalDiatonic = 8,
                                       !.humPitch = 15],
            [VoiceParamsDefault EXCEPT !.enabled = TRUE, !.mode = "Semitone",
                                       !.intervalSemi = 7, !.level = -6],
            VoiceParamsDefault>>] }

StagedBlocks == EngineBlocks \cup { <<1, 1, -1, -1>> }
MaxStagedBlocks == 2
MaxControlWrites == 2

\* The start of process with samplesPerBlock left as it was
BeginBlock_keepsBlockSize(buffer) ==
  LET numSamples == Len(buffer)
      resized == numSamples # eng.samplesPerBlock
  IN /\ eng.prepared
     /\ run.pc = "idle"
     /\ calls < MaxStagedBlocks
     /\ eng' = [eng EXCEPT !.reprepared = IF resized THEN @ + 1 ELSE @]
     /\ lc' = IF resized
                THEN LeadCorrection_prepare(lc, eng.sampleRate, numSamples)
                ELSE lc
     /\ hv' = [i \in 1..3 |->
                 IF resized
                   THEN HarmonyVoice_prepare(hv[i], eng.sampleRate, numSamples)
                   ELSE hv[i]]
     /\ run' = [ProcessCallNew EXCEPT
                  !.pc = "inputType", !.input = buffer, !.resized = resized,
                  !.lastLength = Len(run.input),
                  !.stages = IF resized THEN <<"prepare">> ELSE <<>>]
     /\ UNCHANGED <<apvts, pd, pm, calls, ps, mq, otherVars>>

\* TunerEngine.cpp 71-85
BeginBlock(buffer) ==
  LET numSamples == Len(buffer)
      resized == numSamples # eng.samplesPerBlock
  IN /\ eng.prepared
     /\ run.pc = "idle"
     /\ calls < MaxStagedBlocks
     /\ eng' = [eng EXCEPT !.samplesPerBlock = numSamples,
                           !.reprepared = IF resized THEN @ + 1 ELSE @]
     /\ lc' = IF resized
                THEN LeadCorrection_prepare(lc, eng.sampleRate, numSamples)
                ELSE lc
     /\ hv' = [i \in 1..3 |->
                 IF resized
                   THEN HarmonyVoice_prepare(hv[i], eng.sampleRate, numSamples)
                   ELSE hv[i]]
     /\ run' = [ProcessCallNew EXCEPT
                  !.pc = "inputType", !.input = buffer, !.resized = resized,
                  !.lastLength = Len(run.input),
                  !.stages = IF resized THEN <<"prepare">> ELSE <<>>]
     /\ UNCHANGED <<apvts, pd, pm, calls, ps, mq, otherVars>>

\* TunerEngine.cpp 53-54
UpdateInputType ==
  /\ run.pc = "inputType"
  /\ pd' = PitchDetector_setInputType(pd, apvts.inputType)
  /\ run' = [run EXCEPT !.pc = "mapper", !.stages = Append(@, "inputType")]
  /\ UNCHANGED <<apvts, eng, pm, lc, hv, calls, ps, mq, otherVars>>

\* TunerEngine.cpp 57
UpdateMapper ==
  /\ run.pc = "mapper"
  /\ pm' = PitchMapper_updateFromParameters(pm, apvts)
  /\ run' = [run EXCEPT !.pc = "lead", !.stages = Append(@, "mapper")]
  /\ UNCHANGED <<apvts, eng, pd, lc, hv, calls, ps, mq, otherVars>>

\* TunerEngine.cpp 60
UpdateLead ==
  /\ run.pc = "lead"
  /\ lc' = LeadCorrection_updateFromParameters(lc, apvts)
  /\ run' = [run EXCEPT !.pc = "voice1", !.stages = Append(@, "lead")]
  /\ UNCHANGED <<apvts, eng, pd, pm, hv, calls, ps, mq, otherVars>>

VoicePc(i) == <<"voice1", "voice2", "voice3">>[i]
HarmonyPc(i) == <<"harmony1", "harmony2", "harmony3">>[i]

\* TunerEngine.cpp 63-65, one turn of the loop
UpdateVoice(i) ==
  /\ run.pc = VoicePc(i)
  /\ hv' = [hv EXCEPT ![i] = HarmonyVoice_updateFromParameters(@, i, apvts)]
  /\ run' = [run EXCEPT !.pc = IF i < 3 THEN VoicePc(i + 1) ELSE "detect",
                        !.stages = Append(@, VoicePc(i))]
  /\ UNCHANGED <<apvts, eng, pd, pm, lc, calls, ps, mq, otherVars>>

\* TunerEngine.cpp 99-106
Detect ==
  /\ run.pc = "detect"
  /\ pd' = PitchDetector_process(pd, run.input)
  /\ run' = [run EXCEPT !.pc = "map", !.stages = Append(@, "detect")]
  /\ UNCHANGED <<apvts, eng, pm, lc, hv, calls, ps, mq, otherVars>>

\* TunerEngine.cpp 113
Map ==
  /\ run.pc = "map"
  /\ pm' = PitchMapper_map(pm, pd)
  /\ run' = [run EXCEPT !.pc = "correct", !.stages = Append(@, "map")]
  /\ UNCHANGED <<apvts, eng, pd, lc, hv, calls, ps, mq, otherVars>>

\* The lead stage with the corrected block left out of leadBuffer
correctLead_keepsRawLead(r) ==
  [r EXCEPT !.pc = "clear", !.leadBuffer = "raw",
            !.stages = Append(@, "correct")]

\* TunerEngine.cpp 121-124: makeCopyOf the input, then correct in place
TunerEngine_correctLead(r) ==
  [r EXCEPT !.pc = "clear", !.leadBuffer = "corrected",
            !.stages = Append(@, "correct")]

Correct ==
  /\ run.pc = "correct"
  /\ lc' = LeadCorrection_process(lc, pd, pm, Len(run.input))
  /\ run' = TunerEngine_correctLead(run)
  /\ UNCHANGED <<apvts, eng, pd, pm, hv, calls, ps, mq, otherVars>>

\* TunerEngine.cpp 132
ClearHarmony ==
  /\ run.pc = "clear"
  /\ run' = [run EXCEPT !.pc = "harmony1", !.harmonyBuffer = <<>>,
                        !.stages = Append(@, "clear")]
  /\ UNCHANGED <<apvts, eng, pd, pm, lc, hv, calls, ps, mq, otherVars>>

\* The call record after voice i has run: a voice that renders copies
\* leadBuffer and adds its block to harmonyBuffer (HarmonyVoice.cpp 328-392)
TunerEngine_renderVoice(r, i, voice) ==
  [r EXCEPT !.pc = IF i < 3 THEN HarmonyPc(i + 1) ELSE "mix",
            !.stages = Append(@, HarmonyPc(i)),
            !.voiceSource[i] = IF voice.processed THEN r.leadBuffer ELSE "none",
            !.harmonyBuffer = IF voice.processed THEN Append(@, i) ELSE @]

\* TunerEngine.cpp 135-141, one turn of the loop
Harmony(i, draw) ==
  /\ run.pc = HarmonyPc(i)
  /\ ~WillDraw(hv[i], Len(run.input)) => draw = <<1, 0>>
  /\ hv' = [hv EXCEPT ![i] =
              HarmonyVoice_process(@, pd, pm, Len(run.input), draw)]
  /\ run' = TunerEngine_renderVoice(run, i, hv'[i])
  /\ UNCHANGED <<apvts, eng, pd, pm, lc, calls, ps, mq, otherVars>>

\* TunerEngine.cpp 149-169: lead plus harmonies, soft-clipped
Mix ==
  /\ run.pc = "mix"
  /\ run' = [run EXCEPT !.pc = "idle", !.stages = Append(@, "mix"),
                        !.output = "clipped"]
  /\ calls' = calls + 1
  /\ UNCHANGED <<apvts, eng, pd, pm, lc, hv, ps, mq, otherVars>>

\* The control thread stores a parameter value
ControlWrite(p) ==
  /\ eng.prepared
  /\ p # apvts
  /\ eng.writes < MaxControlWrites
  /\ apvts' = p
  /\ eng' = [eng EXCEPT !.writes = @ + 1]
  /\ UNCHANGED <<pd, pm, lc, hv, calls, ps, mq, run, otherVars>>

NextStaged ==
  \/ \E sr \in EngineSampleRates, n \in EngineBlockSizes : EnginePrepare(sr, n)
  \/ \E b \in StagedBlocks : BeginBlock(b)
  \/ UpdateInputType
  \/ UpdateMapper
  \/ UpdateLead
  \/ \E i \in 1..3 : UpdateVoice(i)
  \/ Detect
  \/ Map
  \/ Correct
  \/ ClearHarmony
  \/ \E i \in 1..3, d \in Draws : Harmony(i, d)
  \/ Mix
  \/ \E p \in StagedParams : ControlWrite(p)

SpecStaged == Init /\ [][NextStaged]_vars

---------------------------------------------------------------------------
(* One HarmonyVoice driven block after block, its parameters changed       *)
(* between blocks.  The detector and the mapper are the ones of a freshly  *)
(* constructed engine (nothing detected).  At 8000 Hz the 10 ms gain       *)
(* smoothing leaves 4 % of a gain difference after a 256-sample block, so  *)
(* a fade from full level takes three blocks.  In this specification       *)
(* calls is the number of blocks handed to the voice.                      *)

VoiceSampleRates == {8000}
VoiceBlockSize == 256
MaxVoiceBlocks == 6
VoiceParamSets ==
  { VoiceParamsDefault,
    [VoiceParamsDefault EXCEPT !.enabled = TRUE],
    [VoiceParamsDefault EXCEPT !.enabled = TRUE, !.level = -6] }

VoicePrepare(sr) ==
  /\ ~hv[1].shifter.prepared
  /\ hv' = [hv EXCEPT ![1] = HarmonyVoice_prepare(@, sr, VoiceBlockSize)]
  /\ UNCHANGED <<apvts, eng, lc, run, pd, pm, mq, ps, calls, otherVars>>

VoiceReset ==
  /\ hv[1].shifter.prepared
  /\ hv' = [hv EXCEPT ![1] = HarmonyVoice_reset(@)]
  /\ UNCHANGED <<apvts, eng, lc, run, pd, pm, mq, ps, calls, otherVars>>

VoiceUpdate(vp) ==
  /\ apvts' = [apvts EXCEPT !.voices[1] = vp]
  /\ hv' = [hv EXCEPT ![1] = HarmonyVoice_updateFromParameters(@, 1, apvts')]
  /\ UNCHANGED <<eng, lc, run, pd, pm, mq, ps, calls, otherVars>>

VoiceProcess(draw) ==
  /\ hv[1].shifter.prepared
  /\ calls < MaxVoiceBlocks
  /\ ~WillDraw(hv[1], VoiceBlockSize) => draw = <<1, 0>>
  /\ hv' = [hv EXCEPT ![1] =
              HarmonyVoice_process(@, pd, pm, VoiceBlockSize, draw)]
  /\ calls' = calls + 1
  /\ UNCHANGED <<apvts, eng, lc, run, pd, pm, mq, ps, otherVars>>

VoiceBlock == \E d \in Draws : VoiceProcess(d)

NextVoice ==
  \/ \E sr \in VoiceSampleRates : VoicePrepare(sr)
  \/ VoiceReset
  \/ \E vp \in VoiceParamSets : VoiceUpdate(vp)
  \/ VoiceBlock

SpecVoice == Init /\ [][NextVoice]_vars

---------------------------------------------------------------------------
(* The three voices of an engine with the generator they draw from, run    *)
(* twice side by side: hv and random are the first run, twin the second.   *)
(* Both runs start from the same generator state, get the same blocks and  *)
(* the same settings for voice 1; the settings of voice 2 may differ.  At  *)
(* 157 Hz a voice updates its humanization every 15 samples, i.e. in every *)
(* 16-sample block.                                                        *)

Seeds == {0, 7}
TwinBlockSize == 16
MaxTwinBlocks == 2
OwnSettings ==
  { [VoiceParamsDefault EXCEPT !.enabled = TRUE, !.humPitch = 15],
    [VoiceParamsDefault EXCEPT !.enabled = TRUE, !.humPitch = 15,
                               !.humTiming = 10] }
OtherSettings ==
  { VoiceParamsDefault,
    [VoiceParamsDefault EXCEPT !.enabled = TRUE, !.mode = "Semitone",
                               !.intervalSemi = 7, !.humPitch = 10] }

\* TunerEngine.cpp 135-141 for one voice: st is [hv, random]
voiceTurn(st, i, detector, mapper, numSamples) ==
  LET r == randomFloat(st.random)
  IN [hv |-> [st.hv EXCEPT ![i] =
                HarmonyVoice_process(@, detector, mapper, numSamples, r.draw)],
      random |-> IF WillDraw(st.hv[i], numSamples) THEN r.seed ELSE st.random]

\* TunerEngine.cpp 135-141: the loop over the voices
harmonyLoop(st, detector, mapper, numSamples) ==
  voiceTurn(voiceTurn(voiceTurn(st, 1, detector, mapper, numSamples),
                      2, detector, mapper, numSamples),
            3, detector, mapper, numSamples)

TwinPrepare(sr, seed) ==
  /\ ~hv[1].shifter.prepared
  /\ hv' = [i \in 1..3 |-> HarmonyVoice_prepare(hv[i], sr, TwinBlockSize)]
  /\ random' = seed
  /\ twin' = [hv |-> hv', random |-> seed]
  /\ UNCHANGED <<apvts, eng, lc, run, fp, pd, pm, mq, ps, calls>>

\* TunerEngine.cpp 63-65 in both runs: voice 1 is given the same settings in
\* both, voice 2 its own settings in each
TwinUpdate(own, other, otherTwin) ==
  LET p == [DefaultParams EXCEPT
              !.voices = <<own, other, VoiceParamsDefault>>]
      q == [DefaultParams EXCEPT
              !.voices = <<own, otherTwin, VoiceParamsDefault>>]
  IN /\ hv[1].shifter.prepared
     /\ hv' = [i \in 1..3 |-> HarmonyVoice_updateFromParameters(hv[i], i, p)]
     /\ twin' = [twin EXCEPT !.hv =
                   [i \in 1..3 |->
                      HarmonyVoice_updateFromParameters(twin.hv[i], i, q)]]
     /\ apvts' = p
     /\ UNCHANGED <<eng, lc, run, fp, random, pd, pm, mq, ps, calls>>

TwinProcess ==
  LET a == harmonyLoop([hv |-> hv, random |-> random], pd, pm, TwinBlockSize)
      b == harmonyLoop(twin, pd, pm, TwinBlockSize)
  IN /\ hv[1].shifter.prepared
     /\ calls < MaxTwinBlocks
     /\ hv' = a.hv
     /\ random' = a.random
     /\ twin' = b
     /\ calls' = calls + 1
     /\ UNCHANGED <<apvts, eng, lc, run, fp, pd, pm, mq, ps>>

NextTwin ==
  \/ \E sr \in EngineSampleRates, seed \in Seeds : TwinPrepare(sr, seed)
  \/ \E own \in OwnSettings, o1 \in OtherSettings, o2 \in OtherSettings :
        TwinUpdate(own, o1, o2)
  \/ TwinProcess

SpecTwin == Init /\ [][NextTwin]_vars

---------------------------------------------------------------------------
(* Mapping and lead correction fed by a detector that reports a steady     *)
(* pitch.  At 8000 Hz the fastest retune speed (0.5 ms) has a time         *)
(* constant of 4 samples, so an 8-sample block covers 86 % of the distance *)
(* to the target ratio.                                                    *)

LeadSampleRates == {8000}
LeadBlockSize == 8
MaxLeadBlocks == 4
\* Detected frequencies in deci-Hz, 0 for an unvoiced block
DetectedPitches == {0, 4300, 4500}
LeadParams ==
  { [DefaultParams EXCEPT !.retuneSpeed = 100],
    [DefaultParams EXCEPT !.retuneSpeed = 50],
    [DefaultParams EXCEPT !.retuneSpeed = 100, !.key = 10] }

\* The detector after a block in which it found the frequency f
\* (PitchDetector.cpp 167-191)
detected(q, f) ==
  IF f > 0
    THEN [q EXCEPT !.voiced = TRUE,
                   !.detectedFrequencyHz = f,
                   !.detectedMidiNote = frequencyToMidiNote(f)]
    ELSE [q EXCEPT !.voiced = FALSE,
                   !.detectedFrequencyHz = 0,
                   !.detectedMidiNote = 0]

LeadPrepare(sr) ==
  /\ ~lc.shifter.prepared
  /\ lc' = LeadCorrection_prepare(lc, sr, LeadBlockSize)
  /\ pm' = PitchMapper_reset(pm)
  /\ UNCHANGED <<apvts, eng, hv, run, pd, mq, ps, calls, otherVars>>

\* TunerEngine.cpp 57-60
LeadConfigure(p) ==
  /\ apvts' = p
  /\ pm' = PitchMapper_updateFromParameters(pm, p)
  /\ lc' = LeadCorrection_updateFromParameters(lc, p)
  /\ UNCHANGED <<eng, hv, run, pd, mq, ps, calls, otherVars>>

\* TunerEngine.cpp 106-124 for a block in which the detector finds f
LeadBlock(f) ==
  /\ lc.shifter.prepared
  /\ calls < MaxLeadBlocks
  /\ pd' = detected(pd, f)
  /\ pm' = PitchMapper_map(pm, pd')
  /\ lc' = LeadCorrection_process(lc, pd', pm', LeadBlockSize)
  /\ calls' = calls + 1
  /\ UNCHANGED <<apvts, eng, hv, run, mq, ps, otherVars>>

NextLead ==
  \/ \E sr \in LeadSampleRates : LeadPrepare(sr)
  \/ \E p \in LeadParams : LeadConfigure(p)
  \/ \E f \in DetectedPitches : LeadBlock(f)

SpecLead == Init /\ [][NextLead]_vars

---------------------------------------------------------------------------
(* Claims about the PitchShifter                                           *)

\* C1: with ratio 1.0 and an unending input stream, grain production never
\* stops permanently: at every point of the stream a later process step
\* extracts a new grain.
C1_GrainProductionNeverStops == []<>(ps.grains > 0)

\* C2: at every grain placement (ratio 1.0) the output write cursor is ahead
\* of the output read cursor by between 1 and windowSize ring positions.
C2_WriteCursorAheadOfRead ==
  ps.grainOffset # -1 => ps.grainOffset \in 1..ps.windowSize

\* C7: in every reachable state of a PitchShifter, whatever ratios were
\* requested, targetPitchRatio and the smoothed currentPitchRatio lie in
\* [0.5, 2.0].
C7_RatiosClamped ==
  /\ ps.targetPitchRatio \in minPitchShiftRatio..maxPitchShiftRatio
  /\ ps.currentPitchRatio \in minPitchShiftRatio..maxPitchShiftRatio

\* C7 witness: a ratio above 2.0 (or at most 0) was requested and samples were
\* processed while the smoothed ratio was on its way to the clamped target.
C7_Witness ==
  /\ calls > 0
  /\ \/ ps.ratioArg > maxPitchShiftRatio
     \/ ps.ratioArg <= 0
  /\ ps.targetPitchRatio \in {minPitchShiftRatio, maxPitchShiftRatio}
  /\ ps.currentPitchRatio # ps.targetPitchRatio
  /\ ps.currentPitchRatio # RatioScale

---------------------------------------------------------------------------
(* Claims about the PitchMapper                                            *)

\* The integer note n belongs to the scale rooted at key
InScale(key, scale, n) ==
  \E i \in DOMAIN getScaleIntervals(scale) :
     getScaleIntervals(scale)[i] = (n - key) % 12

\* C3: for every fractional MIDI pitch, key and scale, quantizeToScale returns
\* an in-scale note whose distance to the (fractional) pitch is minimal among
\* all in-scale notes.
C3_NearestInScaleNote ==
  mq.op = "quantize" =>
    /\ mq.result % MidiScale = 0
    /\ InScale(pm.currentKey, pm.currentScale, mq.result \div MidiScale)
    /\ \A k \in (LowNote - 12)..(HighNote + 12) :
         InScale(pm.currentKey, pm.currentScale, k) =>
           Abs(mq.result - mq.midiNote) <= Abs(k * MidiScale - mq.midiNote)

\* C4: quantizeToScale is idempotent, quantize(quantize(n)) = quantize(n), and
\* an integer note that is already in the scale is returned unchanged.
C4_QuantizeIdempotent ==
  mq.op = "quantize" =>
    /\ mq.again = mq.result
    /\ ( /\ mq.midiNote % MidiScale = 0
         /\ InScale(pm.currentKey, pm.currentScale, mq.midiNote \div MidiScale) )
       => mq.result = mq.midiNote

\* C4 witness: an out-of-scale fractional pitch in a key other than C was moved
\* to another note, and quantizing that note again left it where it was.
C4_Witness ==
  /\ mq.op = "quantize"
  /\ pm.currentKey # 0
  /\ pm.currentScale # "Chromatic"
  /\ mq.midiNote % MidiScale # 0
  /\ Abs(mq.result - mq.midiNote) > MidiScale
  /\ mq.again = mq.result

\* The number of in-scale notes k with lo <= k <= hi
ScaleNotesBetween(key, scale, lo, hi) ==
  Cardinality({k \in lo..hi : InScale(key, scale, k)})

\* C5: for every key, 7-note scale, in-scale base note and degree d in -7..7,
\* diatonicToSemitones is the signed distance from the base note to the scale
\* note d degrees away: base + result is in the scale and exactly |d| scale
\* notes lie between base (excluded) and base + result (included); d = 0 gives
\* 0, d = +7/-7 gives +12/-12; in C Major +2 from C (60) gives +4 and +1 from
\* E (64) gives +1.
C5_DiatonicDistance ==
  ( /\ mq.op = "diatonic"
    /\ Len(pm.scaleIntervals) = 7
    /\ InScale(pm.currentKey, pm.currentScale, mq.midiNote \div MidiScale) )
  => LET base == mq.midiNote \div MidiScale
         d == mq.degrees
         r == mq.result
     IN /\ InScale(pm.currentKey, pm.currentScale, base + r)
        /\ d = 0 => r = 0
        /\ d = 7 => r = 12
        /\ d = -7 => r = -12
        /\ d > 0 => /\ r > 0
                    /\ ScaleNotesBetween(pm.currentKey, pm.currentScale,
                                         base + 1, base + r) = d
        /\ d < 0 => /\ r < 0
                    /\ ScaleNotesBetween(pm.currentKey, pm.currentScale,
                                         base + r, base - 1) = -d
        /\ ( /\ pm.currentKey = 0
             /\ pm.currentScale = "Major" )
           => /\ (base = 60 /\ d = 2) => r = 4
              /\ (base = 64 /\ d = 1) => r = 1

\* C5 witness: a downward interval that crosses the octave boundary of a scale
\* rooted away from C.
C5_Witness ==
  /\ mq.op = "diatonic"
  /\ Len(pm.scaleIntervals) = 7
  /\ pm.currentKey = 5
  /\ InScale(pm.currentKey, pm.currentScale, mq.midiNote \div MidiScale)
  /\ mq.degrees = -3
  /\ RelativePitchClass(pm, mq.midiNote \div MidiScale) < 4
  /\ mq.result \in {-5, -6}

---------------------------------------------------------------------------
(* Claims about the PitchDetector                                          *)

\* C8: in every state after any sequence of prepare, reset, setInputType and
\* process calls, a detector that reports voiced = false reports frequency 0
\* and MIDI note 0, also when a candidate period was found and rejected as
\* outside the range of the input type.
C8_UnvoicedReportsZero ==
  ~pd.voiced => /\ pd.detectedFrequencyHz = 0
                /\ pd.detectedMidiNote = 0

\* C10: whenever the analysis frame consists only of zero samples, the
\* analysis reports voiced = false with confidence 0 and frequency 0.
C10_SilenceIsUnvoiced ==
  ( /\ pd.analyses > 0
    /\ pd.analysisFrame = Zeros(pd.frameSize) )
  => /\ ~pd.voiced
     /\ pd.confidence = 0
     /\ pd.detectedFrequencyHz = 0

\* C10 witness: more than a frame of input went in since the reset and the
\* last analysis ran on a frame of zeros, with a zero cumulative sum at every
\* lag.
C10_Witness ==
  /\ pd.analyses > 0
  /\ pd.ringBufferWritePos > pd.frameSize
  /\ pd.analysisFrame = Zeros(pd.frameSize)
  /\ pd.dividedByZero
  /\ ~pd.voiced

---------------------------------------------------------------------------
(* Claims about the stages of the engine                                   *)

\* C6: a HarmonyVoice in Diatonic mode shifts to the note PitchMapper computes:
\* for a voiced block, the note an enabled Diatonic voice aims at before pitch
\* humanization equals harmonyTargetMidiNotes of the mapping result for the
\* same voice settings.
C6_VoiceFollowsMapper ==
  \A i \in 1..3 :
    ( /\ hv[i].processed
      /\ hv[i].enabled
      /\ hv[i].mode = "Diatonic"
      /\ pd.voiced
      /\ pm.lastResult.leadTargetMidiNote > 0 )
    => hv[i].harmonyMidi = pm.lastResult.harmonyTargetMidiNotes[i]

\* C9: whenever the detector is unvoiced for a block, the mapping result has
\* lead target 0 and all harmony targets 0, the target ratio of LeadCorrection
\* is exactly 1.0 and so is the target ratio of every voice that processed the
\* block, whatever the humanize, retune speed and interval settings.
C9_UnvoicedIsIdentity ==
  ~pd.voiced =>
    /\ pm.lastResult.leadTargetMidiNote = 0
    /\ pm.lastResult.harmonyTargetMidiNotes = <<0, 0, 0>>
    /\ lc.targetPitchRatio = RatioScale
    /\ \A i \in 1..3 : hv[i].processed => hv[i].targetPitchRatio = RatioScale

\* C9 witness: a block found unvoiced although the detector still holds the
\* frequency of a rejected candidate, with lead humanization on and a harmony
\* voice with an interval rendering the block.
C9_Witness ==
  /\ calls > 0
  /\ ~pd.voiced
  /\ pd.detectedFrequencyHz > 0
  /\ pd.detectedMidiNote > 0
  /\ lc.humanizeAmount > 0
  /\ \E i \in 1..3 : /\ hv[i].processed
                     /\ hv[i].enabled
                     /\ hv[i].targetPitchRatio = RatioScale
  /\ lc.targetPitchRatio = RatioScale

---------------------------------------------------------------------------
(* Claims about one TunerEngine::process call                              *)

\* The parameters of the call have all been loaded and its stages are running
Rendering ==
  run.pc \in {"detect", "map", "correct", "clear",
              "harmony1", "harmony2", "harmony3", "mix"}

\* C11: within one process call no component sees a parameter change: while
\* the stages of a block run, the (enabled, mode, diatonic interval, semitone
\* offset) PitchMapper holds for voice i are the ones HarmonyVoice i holds,
\* even when the control thread writes parameters during the call.
C11_OneSnapshotPerBlock ==
  Rendering =>
    \A i \in 1..3 :
      /\ pm.harmonySettings[i].enabled = hv[i].enabled
      /\ pm.harmonySettings[i].mode = hv[i].mode
      /\ pm.harmonySettings[i].diatonicIntervalIndex = hv[i].diatonicIntervalIndex
      /\ pm.harmonySettings[i].semitoneOffset = hv[i].semitoneOffset

\* The components LeadCorrection and HarmonyVoice i are prepared for blocks
\* of n samples
PreparedFor(n) ==
  /\ lc.blockSize = n
  /\ lc.shifter.maxBlockSize = n
  /\ \A i \in 1..3 : hv[i].maxBlockSize = n /\ hv[i].shifter.maxBlockSize = n

\* C15: a block whose length differs from samplesPerBlock re-prepares
\* LeadCorrection and the three voices before any stage touches the block,
\* once.  While a call is in progress the components are prepared for the
\* length of its block and a re-preparation, if any, was the first thing the
\* call did; a block as long as the block before triggers none, a block of a
\* different length triggers one.
C15_ReprepareOnceBeforeStages ==
  run.pc # "idle" =>
    /\ PreparedFor(Len(run.input))
    /\ eng.samplesPerBlock = Len(run.input)
    /\ \A k \in 1..Len(run.stages) : run.stages[k] = "prepare" => k = 1
    /\ run.resized <=> (run.stages # <<>> /\ run.stages[1] = "prepare")
    /\ run.lastLength > 0 =>
          (run.resized <=> Len(run.input) # run.lastLength)

\* C15 witness: the first block re-prepared the components, the second, of
\* the same length, is past its stages without another re-preparation.
C15_Witness ==
  /\ calls = 1
  /\ eng.reprepared = 1
  /\ run.pc = "mix"
  /\ ~run.resized
  /\ run.lastLength = Len(run.input)

StageOrder ==
  <<"inputType", "mapper", "lead", "voice1", "voice2", "voice3",
    "detect", "map", "correct", "clear",
    "harmony1", "harmony2", "harmony3", "mix">>

\* The stages of the current call without a leading re-preparation
StagesRun == IF run.resized THEN Tail(run.stages) ELSE run.stages

\* Voice i has had its turn in the current call
HadTurn(i) == \E k \in 1..Len(run.stages) : run.stages[k] = HarmonyPc(i)

\* C17: every process call runs parameter update, detection, mapping, lead
\* correction, voices 0, 1, 2 and the mix in this order.  The stages run so
\* far are always a prefix of that order; the harmony buffer is empty when
\* voice 0 starts and holds the rendering voices in index order; a voice that
\* renders has copied the corrected lead, never the raw input; and the
\* mapping result the voices read is the one of this block's detection.
C17_FixedStageOrder ==
  /\ Len(StagesRun) <= Len(StageOrder)
  /\ \A k \in 1..Len(StagesRun) : StagesRun[k] = StageOrder[k]
  /\ run.pc = "harmony1" => run.harmonyBuffer = <<>>
  /\ \A j, k \in 1..Len(run.harmonyBuffer) :
        j < k => run.harmonyBuffer[j] < run.harmonyBuffer[k]
  /\ \A i \in 1..3 :
        /\ run.voiceSource[i] \in {"none", "corrected"}
        /\ HadTurn(i) =>
              /\ hv[i].processed <=> run.voiceSource[i] = "corrected"
              /\ hv[i].processed <=>
                    \E k \in 1..Len(run.harmonyBuffer) : run.harmonyBuffer[k] = i
              /\ pm.lastResult.isVoiced = pd.voiced
              /\ pm.lastResult.detectedMidiNote = pd.detectedMidiNote
              /\ ( hv[i].processed /\ pd.voiced /\ hv[i].mode = "Semitone"
                    /\ pm.lastResult.leadTargetMidiNote > 0 )
                  => hv[i].harmonyMidi = pm.lastResult.leadTargetMidiNote
                                          + MidiScale * hv[i].semitoneOffset
  /\ run.output = "clipped" => run.pc = "idle" /\ StagesRun = StageOrder

\* C17 witness: a call has finished in which voices 0 and 1 rendered a voiced
\* block from the corrected lead.
C17_Witness ==
  /\ run.pc = "idle"
  /\ run.output = "clipped"
  /\ run.harmonyBuffer = <<1, 2>>
  /\ run.voiceSource = <<"corrected", "corrected", "none">>
  /\ pd.voiced

---------------------------------------------------------------------------
(* Claims about mapping and lead correction                                *)

\* The settings of the claim: key C, Major, fastest retune, no humanize,
\* fully wet
FastRetuneInC ==
  /\ pm.currentKey = 0
  /\ pm.currentScale = "Major"
  /\ lc.retuneSpeed = 100
  /\ lc.humanizeAmount = 0
  /\ lc.mix = 100

\* 440/450
RatioFor450 == (4400 * RatioScale) \div 4500

\* The one-pole step in fixed point stops moving once coeff * distance is
\* below one unit of the ratio; a ratio that close has converged
Converged(current, target, coeff) ==
  Abs(current - target) * coeff < CoeffScale

\* Blocks of steady input after which the ratio has converged
ConvergenceBlocks == 3

---------------------------------------------------------------------------
(* Claims about one HarmonyVoice                                           *)

\* The voice is disabled and still audible
Fading == ~hv[1].enabled /\ hv[1].currentGain > fadeThreshold

\* The voice is disabled and has decayed to silence
Silent == ~hv[1].enabled /\ ~(hv[1].currentGain > fadeThreshold)

\* Blocks a fade from the loudest level takes at 8000 Hz with 256-sample
\* blocks (the gain difference shrinks to 4 % per block)
MaxFadeBlocks == 3

\* C12: a sounding voice that is disabled fades out.  Every block handed to a
\* disabled voice whose gain is above 0.001 is rendered with target gain 0 and
\* does not raise the gain; a block handed to a disabled voice whose gain is
\* at most 0.001 returns at once and leaves the voice as it was; and the
\* fade is over after finitely many blocks: a disabled voice never renders
\* more than MaxFadeBlocks blocks in a row.
C12_DisabledVoiceFadesOut ==
  /\ [][ (calls' # calls /\ Fading) =>
           /\ hv'[1].processed
           /\ hv'[1].targetGain = 0
           /\ hv'[1].currentGain <= hv[1].currentGain ]_vars
  /\ [][ (calls' # calls /\ Silent) =>
           /\ ~hv'[1].processed
           /\ hv'[1] = [hv[1] EXCEPT !.processed = FALSE, !.fadeBlocks = 0] ]_vars
  /\ [](hv[1].fadeBlocks <= MaxFadeBlocks)

\* C12 witness: the last block of a fade has been rendered: the voice is
\* disabled, it rendered its latest block, and its gain has come down to a
\* value that is not zero and no longer above 0.001.
C12_Witness ==
  /\ ~hv[1].enabled
  /\ hv[1].processed
  /\ hv[1].targetGain = 0
  /\ hv[1].fadeBlocks > 1
  /\ hv[1].currentGain > 0
  /\ hv[1].currentGain <= fadeThreshold

\* C13: the harmony voices share no mutable state.  Two runs that start
\* alike, receive the same blocks and the same settings for voice 1 and differ
\* only in the settings of another voice leave voice 1 in the same state.
C13_VoicesIndependent == hv[1] = twin.hv[1]

---------------------------------------------------------------------------
(* Claims about the engine as a whole                                      *)

\* A PitchShifter in the state reset() is said to leave: unity ratios and
\* the initial cursors
ShifterCleared(q) ==
  /\ q.targetPitchRatio = RatioScale
  /\ q.currentPitchRatio = RatioScale
  /\ q.inputWritePos = 0
  /\ q.inputSamplesAvailable = 0
  /\ q.outputReadPos = 0
  /\ q.outputWritePos = q.windowSize
  /\ q.outputPhase = 0
  /\ q.lastInputGrainStart = 0

\* C14: TunerEngine::reset clears all processing state.  Whatever was
\* processed or configured before, right after reset() every PitchShifter has
\* target and current ratio 1.0 and its initial cursors, the smoothed ratio of
\* LeadCorrection and of every HarmonyVoice is 1.0, every voice gain is 0 and
\* the detector reports unvoiced, as after a fresh prepare.
C14_ResetClearsState ==
  [][ EngineReset =>
        /\ ShifterCleared(lc'.shifter)
        /\ \A i \in 1..3 : ShifterCleared(hv'[i].shifter)
        /\ lc'.currentPitchRatio = RatioScale
        /\ lc'.targetPitchRatio = RatioScale
        /\ \A i \in 1..3 : /\ hv'[i].currentPitchRatio = RatioScale
                            /\ hv'[i].currentGain = 0
        /\ ~pd'.voiced
        /\ pm'.lastResult = PitchMappingResultNew ]_vars

---------------------------------------------------------------------------
(* One FormantProcessor driven as a harmony voice drives it.  At 400 Hz    *)
(* the 10 ms smoothing of the shift ratio has a time constant of 4         *)
(* samples, so that a 16-sample block brings the ratio close to its        *)
(* target.                                                                 *)

FormantSampleRates == {400}
FormantBlockSizes == {16}
FormantShifts == {-7, 0}
\* 1.0, 1.0005, 0.9
CompensationRatios == {RatioScale, RatioScale + 5, (9 * RatioScale) \div 10}
MaxFormantBlocks == 3

FormantPrepare(sr) ==
  /\ fp' = FormantProcessor_prepare(fp, sr)
  /\ calls' = 0
  /\ UNCHANGED <<ps, mapperVars, pd, apvts, eng, lc, hv, run, random, twin>>

FormantReset ==
  /\ fp.prepared
  /\ fp' = FormantProcessor_reset(fp)
  /\ UNCHANGED <<calls, ps, mapperVars, pd, apvts, eng, lc, hv, run,
                 random, twin>>

FormantSetShift(semitones) ==
  /\ fp' = FormantProcessor_setFormantShift(fp, semitones)
  /\ UNCHANGED <<calls, ps, mapperVars, pd, apvts, eng, lc, hv, run,
                 random, twin>>

FormantSetCompensation(pitchRatio) ==
  /\ fp' = FormantProcessor_setPitchCompensation(fp, pitchRatio)
  /\ UNCHANGED <<calls, ps, mapperVars, pd, apvts, eng, lc, hv, run,
                 random, twin>>

FormantProcess(numSamples) ==
  /\ fp.prepared
  /\ calls < MaxFormantBlocks
  /\ fp' = FormantProcessor_process(fp, numSamples)
  /\ calls' = calls + 1
  /\ UNCHANGED <<ps, mapperVars, pd, apvts, eng, lc, hv, run, random, twin>>

NextFormant ==
  \/ \E sr \in FormantSampleRates : FormantPrepare(sr)
  \/ FormantReset
  \/ \E s \in FormantShifts : FormantSetShift(s)
  \/ \E r \in CompensationRatios : FormantSetCompensation(r)
  \/ \E n \in FormantBlockSizes : FormantProcess(n)

SpecFormant == Init /\ [][NextFormant]_vars

---------------------------------------------------------------------------
(* Claims about the FormantProcessor                                       *)

NearUnity(ratio) == Abs(ratio - RatioScale) < shiftThreshold

\* C20: a process call made while both the current and the target shift
\* ratio are within 0.001 of 1.0 changes nothing: the buffer still holds the
\* input, and currentShiftRatio, the band envelopes, the filter states and
\* the filter coefficients are as before the call.
C20_UnityShiftIsNoOp ==
  [][ ( /\ calls' = calls + 1
        /\ NearUnity(fp.currentShiftRatio)
        /\ NearUnity(fp.targetShiftRatio) )
      => /\ fp'.buffer = "input"
         /\ fp' = [fp EXCEPT !.buffer = "input"] ]_vars

\* C20 witness: the ratio was smoothed back from a shift until it came
\* within 0.001 of 1.0 without reaching it, and the next block was passed
\* through with the filters keeping the state the shifted blocks left.
C20_Witness ==
  /\ fp.prepared
  /\ calls = MaxFormantBlocks
  /\ fp.buffer = "input"
  /\ fp.filterSamples > 0
  /\ fp.currentShiftRatio # RatioScale
  /\ NearUnity(fp.currentShiftRatio)
  /\ NearUnity(fp.targetShiftRatio)

---------------------------------------------------------------------------
(* Claims about the sizes PitchShifter::prepare computes                   *)

IsPowerOfTwo(n) == \E k \in 0..20 : n = 2^k

\* C19: after prepare(sampleRate, maxBlock) the window is the 25 ms window
\* clamped to [256, 2048], the analysis hop is a quarter of it, and both
\* rings have a power-of-two size of at least 4 * windowSize + maxBlock;
\* process (the steps that count a call) and reset leave all these sizes as
\* prepare set them.
C19_PreparedSizes ==
  /\ [](ps.prepared =>
         /\ ps.windowSize = Clamp((25 * ps.sampleRate) \div 1000, 256, 2048)
         /\ ps.windowSize >= 256
         /\ ps.windowSize <= 2048
         /\ ps.analysisHopSize = ps.windowSize \div 4
         /\ IsPowerOfTwo(ps.inputBufferSize)
         /\ IsPowerOfTwo(ps.outputBufferSize)
         /\ ps.inputBufferSize >= 4 * ps.windowSize + ps.maxBlockSize
         /\ ps.outputBufferSize >= 4 * ps.windowSize + ps.maxBlockSize)
  /\ [][ (Reset \/ calls' = calls + 1)
         => /\ ps'.windowSize = ps.windowSize
            /\ ps'.analysisHopSize = ps.analysisHopSize
            /\ ps'.inputBufferSize = ps.inputBufferSize
            /\ ps'.outputBufferSize = ps.outputBufferSize
            /\ ps'.maxBlockSize = ps.maxBlockSize
            /\ ps'.sampleRate = ps.sampleRate ]_vars

\* C19 witness: prepared at 20 kHz for blocks of 1000 samples, the window is
\* the unclamped 500 samples with a hop of 125 and 4096-sample rings, and
\* blocks have been processed since.
C19_Witness ==
  /\ ps.prepared
  /\ ps.sampleRate = 20000
  /\ ps.maxBlockSize = 1000
  /\ ps.windowSize = 500
  /\ ps.analysisHopSize = 125
  /\ ps.inputBufferSize = 4096
  /\ ps.outputBufferSize = 4096
  /\ calls = MaxCalls
  /\ ps.grains > 0

---------------------------------------------------------------------------
(* The mapper with harmony voices enabled and disabled in every            *)
(* combination, asked for the harmony targets of a detected note.          *)

HarmonyModes == {"Diatonic", "Semitone"}
\* A third up (index 9) in diatonic mode, a fifth up in semitone mode
HarmonyVoiceParams(enabled, mode) ==
  [VoiceParamsDefault EXCEPT !.enabled = enabled, !.mode = mode,
                             !.intervalDiatonic = 9, !.intervalSemi = 7]
HarmonyParams ==
  { [DefaultParams EXCEPT !.voices = <<HarmonyVoiceParams(e[1], m[1]),
                                       HarmonyVoiceParams(e[2], m[2]),
                                       HarmonyVoiceParams(e[3], m[2])>>] :
      e \in [1..3 -> BOOLEAN], m \in [1..2 -> HarmonyModes] }
MaxHarmonyBlocks == 2

\* TunerEngine.cpp 57
HarmonyConfigure(p) ==
  /\ apvts' = p
  /\ pm' = PitchMapper_updateFromParameters(pm, p)
  /\ mq' = MapperQueryNew
  /\ UNCHANGED <<shifterVars, pd, eng, lc, hv, run, otherVars>>

\* TunerEngine.cpp 106-113 for a block in which the detector finds f
HarmonyMap(f) ==
  /\ calls < MaxHarmonyBlocks
  /\ pd' = detected(pd, f)
  /\ pm' = PitchMapper_map(pm, pd')
  /\ calls' = calls + 1
  /\ UNCHANGED <<ps, mq, apvts, eng, lc, hv, run, otherVars>>

\* calculateHarmonyTarget called directly for voice i and a base note
HarmonyTarget(i, baseMidiNote) ==
  /\ mq' = [op |-> "harmony", midiNote |-> baseMidiNote, degrees |-> i,
            result |-> PitchMapper_calculateHarmonyTarget(pm, i,
                                                          baseMidiNote),
            again |-> 0]
  /\ UNCHANGED <<pm, shifterVars, pd, engineVars>>

NextHarmony ==
  \/ \E p \in HarmonyParams : HarmonyConfigure(p)
  \/ \E f \in DetectedPitches : HarmonyMap(f)
  \/ \E i \in 1..3, n \in {60 * MidiScale, 69 * MidiScale} :
       HarmonyTarget(i, n)

SpecHarmony == Init /\ [][NextHarmony]_vars

---------------------------------------------------------------------------
(* Claims about the harmony targets of the mapper                          *)

\* C21: in the result of every map call the harmony target of a disabled
\* voice is 0, whatever its mode and interval, and calculateHarmonyTarget
\* called for a disabled voice returns 0.
C21_DisabledVoiceTargetZero ==
  /\ [][ calls' = calls + 1 =>
           \A i \in 1..3 :
             ~pm.harmonySettings[i].enabled =>
               pm'.lastResult.harmonyTargetMidiNotes[i] = 0 ]_vars
  /\ []( ( /\ mq.op = "harmony"
           /\ ~pm.harmonySettings[mq.degrees].enabled )
         => mq.result = 0 )

\* C21 witness: a voiced note was mapped with the second voice disabled in
\* semitone mode between two enabled voices that got their targets, and
\* calculateHarmonyTarget was then asked for the disabled voice.
C21_Witness ==
  /\ pm.lastResult.isVoiced
  /\ pm.harmonySettings[1].enabled
  /\ ~pm.harmonySettings[2].enabled
  /\ pm.harmonySettings[2].mode = "Semitone"
  /\ pm.harmonySettings[3].enabled
  /\ pm.lastResult.harmonyTargetMidiNotes[1] > 0
  /\ pm.lastResult.harmonyTargetMidiNotes[2] = 0
  /\ pm.lastResult.harmonyTargetMidiNotes[3] > 0
  /\ mq.op = "harmony"
  /\ mq.degrees = 2
  /\ mq.result = 0

---------------------------------------------------------------------------
(* An unending input stream at a constant ratio: the ratio is set before   *)
(* prepare, whose reset() makes it the current ratio, and is not changed   *)
(* afterwards; calls counts the blocks of maxBlockSize samples streamed.   *)

\* 0.5, 1.0, 1.5, 2.0
ConstantRatios ==
  {RatioScale \div 2, RatioScale, (3 * RatioScale) \div 2, 2 * RatioScale}

StreamSetRatio(ratio) ==
  /\ ~ps.prepared
  /\ ps' = PitchShifter_setPitchRatio(ps, ratio)
  /\ UNCHANGED <<calls, mapperVars, pd, engineVars>>

MaxStreamBlocks == 12

ConstantProcess ==
  /\ ps.prepared
  /\ calls < MaxStreamBlocks
  /\ ps' = PitchShifter_process(ps, ps.maxBlockSize)
  /\ calls' = calls + 1
  /\ UNCHANGED <<mapperVars, pd, engineVars>>

NextConstant ==
  \/ \E r \in ConstantRatios : StreamSetRatio(r)
  \/ \E sr \in SampleRates, mb \in MaxBlocks : StreamPrepare(sr, mb)
  \/ ConstantProcess

SpecConstant == Init /\ [][NextConstant]_vars

---------------------------------------------------------------------------
(* Claims about the cursors of a constant-ratio stream                     *)

\* (outputWritePos - outputReadPos) mod ring size, read as a signed distance
\* in [-ring/2, ring/2)
WriteLead(q) ==
  LET half == q.outputBufferSize \div 2
  IN ((q.outputWritePos - q.outputReadPos + half + q.outputBufferSize)
        % q.outputBufferSize) - half

\* C22: at a constant ratio in [0.5, 2.0] the output write cursor does not
\* drift away from the read cursor: after any number of blocks the write
\* cursor leads the read cursor by the window size give or take two window
\* sizes.
C22_WriteCursorDoesNotDrift ==
  ( /\ ps.prepared
    /\ ps.currentPitchRatio = ps.targetPitchRatio
    /\ ps.targetPitchRatio \in ConstantRatios )
  => Abs(WriteLead(ps) - ps.windowSize) <= 2 * ps.windowSize

\* C23: at a constant ratio in [0.5, 2.0] the bookkeeping of the input ring
\* stays within the ring: inputSamplesAvailable lies between 0 and the ring
\* capacity and lastInputGrainStart within one ring length of inputWritePos.
C23_InputBookkeepingBounded ==
  ( /\ ps.prepared
    /\ ps.currentPitchRatio = ps.targetPitchRatio
    /\ ps.targetPitchRatio \in ConstantRatios )
  => /\ ps.inputSamplesAvailable >= 0
     /\ ps.inputSamplesAvailable <= ps.inputBufferSize
     /\ Abs(ps.lastInputGrainStart - ps.inputWritePos) <= ps.inputBufferSize

---------------------------------------------------------------------------
(* Claims about ties in the scale quantisation                             *)

\* The note n is out of the scale and its nearest scale notes below and
\* above are both d semitones away
TiedAt(key, scale, n, d) ==
  /\ ~InScale(key, scale, n)
  /\ InScale(key, scale, n - d)
  /\ InScale(key, scale, n + d)
  /\ \A e \in 1..(d - 1) : /\ ~InScale(key, scale, n - e)
                           /\ ~InScale(key, scale, n + e)

\* C24: when the rounded note is out of the scale and equally far from the
\* scale notes below and above it, quantizeToScale returns the higher one
\* (E-flat, 63, in C Major gives E, 64).
C24_TieResolvedUpward ==
  mq.op = "quantize" =>
    \A d \in 1..6 :
      TiedAt(pm.currentKey, pm.currentScale, Round(mq.midiNote), d)
        => mq.result = (Round(mq.midiNote) + d) * MidiScale

---------------------------------------------------------------------------
(* Claims about the analysis schedule of the PitchDetector.  Fewer samples *)
(* than the ring holds are fed between two resets, so that                 *)
(* ringBufferWritePos is the number of samples since the last reset.       *)

CeilDiv(n, k) == (n + k - 1) \div k

\* C25: after a reset and n input samples, however they were split into
\* blocks, ceil(n / hopSize) analyses have run, the first on the first
\* sample and each next one hopSize samples after the one before.
C25_AnalysisEveryHop ==
  pd.prepared =>
    /\ pd.analyses = CeilDiv(pd.ringBufferWritePos, pd.hopSize)
    /\ pd.ringBufferWritePos > 0 =>
         pd.samplesUntilNextAnalysis =
           pd.hopSize - ((pd.ringBufferWritePos - 1) % pd.hopSize)

\* C25 witness: with a hop of two samples, five one-sample blocks were
\* processed and three analyses ran, the last one on the fifth sample.
C25_Witness ==
  /\ pd.prepared
  /\ pd.hopSize = 2
  /\ calls = 5
  /\ pd.ringBufferWritePos = 5
  /\ pd.analyses = 3
  /\ pd.samplesUntilNextAnalysis = 2

---------------------------------------------------------------------------
(* One HarmonyVoice with timing humanization.  At 1000 Hz the delay line   *)
(* holds 50 samples and the humanization targets are redrawn every 100     *)
(* samples, i.e. in every 128-sample block.  The timing value is chosen    *)
(* before the first block and kept.                                        *)

TimingSampleRates == {1000}
TimingBlockSize == 128
MaxTimingBlocks == 8
\* Timing humanization of 30 ms (top of the parameter range), 50 ms (the
\* capacity of the delay line) and 100 ms
TimingParamSets ==
  { [VoiceParamsDefault EXCEPT !.enabled = TRUE, !.humTiming = 30],
    [VoiceParamsDefault EXCEPT !.enabled = TRUE, !.humTiming = 50],
    [VoiceParamsDefault EXCEPT !.enabled = TRUE, !.humTiming = 100] }

TimingPrepare(sr) ==
  /\ ~hv[1].shifter.prepared
  /\ hv' = [hv EXCEPT ![1] = HarmonyVoice_prepare(@, sr, TimingBlockSize)]
  /\ UNCHANGED <<apvts, eng, lc, run, pd, pm, mq, ps, calls, otherVars>>

TimingUpdate(vp) ==
  /\ calls = 0
  /\ apvts' = [apvts EXCEPT !.voices[1] = vp]
  /\ hv' = [hv EXCEPT ![1] = HarmonyVoice_updateFromParameters(@, 1, apvts')]
  /\ UNCHANGED <<eng, lc, run, pd, pm, mq, ps, calls, otherVars>>

TimingProcess(draw) ==
  /\ hv[1].shifter.prepared
  /\ calls < MaxTimingBlocks
  /\ ~WillDraw(hv[1], TimingBlockSize) => draw = <<1, 0>>
  /\ hv' = [hv EXCEPT ![1] =
              HarmonyVoice_process(@, pd, pm, TimingBlockSize, draw)]
  /\ calls' = calls + 1
  /\ UNCHANGED <<apvts, eng, lc, run, pd, pm, mq, ps, otherVars>>

NextTiming ==
  \/ \E sr \in TimingSampleRates : TimingPrepare(sr)
  \/ \E vp \in TimingParamSets : TimingUpdate(vp)
  \/ \E d \in Draws : TimingProcess(d)

SpecTiming == Init /\ [][NextTiming]_vars

---------------------------------------------------------------------------
(* Claims about the delay line of a HarmonyVoice                           *)

\* C26: whatever humanizeTimingMs the voice was given, every index at which
\* applyTimingHumanization reads the delay line lies in
\* [0, maxDelaySamples), and so does the write position.
C26_DelayIndicesInBounds ==
  hv[1].shifter.prepared =>
    /\ ~hv[1].delayOutOfBounds
    /\ hv[1].delayWritePos \in 0..(hv[1].maxDelaySamples - 1)

---------------------------------------------------------------------------
(* Claims about the coefficients of the synthesis filters                  *)

\* C27: at the end of every process call that did not take the fast path
\* the synthesis filters are tuned to the smoothed shift ratio: the ratio
\* their coefficients were computed for is within 0.001 of
\* currentShiftRatio.
C27_FiltersFollowRatio ==
  [][ ( /\ calls' = calls + 1
        /\ ~( /\ NearUnity(fp.currentShiftRatio)
              /\ NearUnity(fp.targetShiftRatio) ) )
      => Abs(fp'.synthesisRatio - fp'.currentShiftRatio) <= shiftThreshold
    ]_vars

---------------------------------------------------------------------------
(* NovaTuneUtils::diatonicToSemitones as a function of any table.  The     *)
(* function takes the table as a parameter, so the empty vector is one of  *)
(* its inputs.  With an empty table numNotesInScale is 0 and a non-zero    *)
(* degree reaches `/ numNotesInScale` and `% numNotesInScale`: an integer  *)
(* division by zero, which is undefined.  A build either traps there or    *)
(* goes on to index the empty vector and returns whatever it reads.        *)

ScaleTables == {<<>>} \cup {getScaleIntervals(scale) : scale \in Scales}
GarbageSemitones == {-12, 0, 12}

Utils_diatonicOutcomes(scaleDegree, scaleIntervals) ==
  IF scaleDegree = 0 THEN {[outcome |-> "returns", result |-> 0]}
  ELSE IF Len(scaleIntervals) = 0
    THEN {[outcome |-> "traps", result |-> 0]}
           \cup {[outcome |-> "returns", result |-> g] :
                   g \in GarbageSemitones}
  ELSE {[outcome |-> "returns",
         result |-> Utils_diatonicToSemitones(scaleDegree, scaleIntervals)]}

UtilsDiatonic(scaleDegree, scaleIntervals) ==
  /\ \E o \in Utils_diatonicOutcomes(scaleDegree, scaleIntervals) :
       mq' = [op |-> "utilsDiatonic", midiNote |-> 0,
              degrees |-> scaleDegree, result |-> o.result, again |-> 0,
              table |-> scaleIntervals, outcome |-> o.outcome]
  /\ UNCHANGED <<pm, shifterVars, pd, engineVars>>

NextTables ==
  \E d \in ScaleDegrees, iv \in ScaleTables : UtilsDiatonic(d, iv)

SpecTables == Init /\ [][NextTables]_vars

---------------------------------------------------------------------------
(* Claims about the conversion on an empty table                           *)

\* C28: on an empty scale-interval table the diatonic conversion returns,
\* and returns 0, for every degree in -7..7: it neither divides by zero
\* nor runs forever.
C28_EmptyTableReturnsZero ==
  (mq.op = "utilsDiatonic" /\ Len(mq.table) = 0)
    => (mq.outcome = "returns" /\ mq.result = 0)

---------------------------------------------------------------------------
(* Claims about the normalisation of the difference function               *)

\* C29: the normalisation never divides by a cumulative sum of zero, and
\* the buffer it leaves holds d'(0) = 1, d'(tau) = 1 where the sum of
\* d(1..tau) is 0 and d(tau) * tau / sum elsewhere.
C29_NormalisationNeverDividesByZero ==
  pd.analyses > 0 =>
    /\ ~pd.dividedByZero
    /\ LET d == computeDifferenceFunction(pd.analysisFrame)
       IN \A t \in 1..Len(d) :
            pd.yinBuffer[t] =
              IF t = 1 \/ cumulativeSum(d, t - 1) = 0 THEN YinScale
              ELSE (d[t] * (t - 1) * YinScale) \div cumulativeSum(d, t - 1)

---------------------------------------------------------------------------
(* NovaTuneUtils::smoothValue.  Values and coefficient are in hundredths   *)
(* (SmoothScale); the inputs are multiples of 0.5 and the coefficients     *)
(* 0, 0.1, 0.5 and 1, for which every product below is a whole number of   *)
(* hundredths.                                                             *)

SmoothScale == 100

smoothValue(current, target, coeff) ==
  current + TruncDiv(coeff * (target - coeff), SmoothScale)

SmoothValues == {v * (SmoothScale \div 2) : v \in -4..4}
SmoothCoeffs == {0, SmoothScale \div 10, SmoothScale \div 2, SmoothScale}
MaxSmoothSteps == 3

\* The first application to a fresh value
Smooth(current, target, coeff) ==
  /\ mq' = [op |-> "smoothValue", midiNote |-> 0, degrees |-> 0,
            result |-> smoothValue(current, target, coeff), again |-> 1,
            current |-> current, target |-> target, coeff |-> coeff]
  /\ UNCHANGED <<pm, shifterVars, pd, engineVars>>

\* The next application, to the value the last one returned
SmoothAgain ==
  /\ mq.op = "smoothValue"
  /\ mq.again < MaxSmoothSteps
  /\ mq' = [mq EXCEPT !.result = smoothValue(mq.result, mq.target, mq.coeff),
                      !.again = @ + 1]
  /\ UNCHANGED <<pm, shifterVars, pd, engineVars>>

NextSmooth ==
  \/ \E current \in SmoothValues, target \in SmoothValues,
        coeff \in SmoothCoeffs : Smooth(current, target, coeff)
  \/ SmoothAgain

SpecSmooth == Init /\ [][NextSmooth]_vars

---------------------------------------------------------------------------
(* Claims about the smoothing helper                                       *)

\* C30: smoothValue returns current + coeff * (target - current): current
\* for coeff = 0, target for coeff = 1, and after any number of
\* applications with a coeff in [0, 1] a value between the first current
\* and the target.
C30_SmoothValueStepsTowardTarget ==
  mq.op = "smoothValue" =>
    /\ mq.again = 1 =>
         /\ mq.result = mq.current
              + TruncDiv(mq.coeff * (mq.target - mq.current), SmoothScale)
         /\ mq.coeff = 0 => mq.result = mq.current
         /\ mq.coeff = SmoothScale => mq.result = mq.target
    /\ mq.result >= Min(mq.current, mq.target)
    /\ mq.result <= Max(mq.current, mq.target)

=============================================================================
